---- MODULE Spec2Model ----
(***************************************************************************)
(* A model of the column_management plugin: the two-tier CacheService, the *)
(* PreferenceService over the User Column Preference doctype, and the      *)
(* PreferenceSyncService (backups, restore, content hash).                 *)
(*                                                                         *)
(* Strings that the code matches character by character (cache keys and   *)
(* patterns) are sequences of one-character strings.  Time is a number of  *)
(* seconds; the clock moves in steps of TickSeconds.                       *)
(***************************************************************************)
EXTENDS Integers, Sequences, FiniteSets, TLC

VARIABLES
    now,            \* time.time() / frappe.utils.now(), in seconds
    memory_cache,   \* CacheService.memory_cache per instance: the dict, in insertion order
    redis_cache,    \* the shared tier 2 (frappe.cache()) as seen through CacheService
    cache_stats,    \* CacheService.cache_stats per instance
    th,             \* per thread: the call it is in and where in it
    supplier_calls, \* how often the get_or_set callback ran, per key
    ops,            \* calls started so far
    meta,           \* frappe.get_meta: the fields of each DocType
    ucp_table,      \* the rows of "User Column Preference", in insertion order
    pref_cache,     \* frappe.cache() entries of PreferenceService, per (user, doctype)
    backup_table,   \* the rows of "Preference Backup", in insertion order
    sync_cache,     \* frappe.cache() entries of PreferenceSyncService, per (user, doctype)
    realtime,       \* the messages handed to frappe.publish_realtime
    pret,           \* the last call of a preference service and what it returned
    next_name,      \* the number the next inserted document is named with
    backup_log,     \* every backup ever inserted: name, user, backup_type, created_at
    hash_docs,      \* the documents handed to _generate_preference_hash
    hash_out,       \* the hashes it returned for them
    window,         \* the last call of the column windowing and what it returned
    sess            \* the requests that write preference documents, step by step

cacheVars == <<memory_cache, redis_cache, cache_stats, th, supplier_calls, ops>>

syncVars == <<backup_log, hash_docs, hash_out>>

auxVars == <<window, sess>>

prefVars ==
    <<meta, ucp_table, pref_cache, backup_table, sync_cache, realtime, pret, next_name, syncVars,
      auxVars>>

vars == <<now, memory_cache, redis_cache, cache_stats, th, supplier_calls, ops,
          meta, ucp_table, pref_cache, backup_table, sync_cache, realtime, pret, next_name,
          backup_log, hash_docs, hash_out, window, sess>>

(***************************************************************************)
(* Bounds of the model                                                     *)
(***************************************************************************)
memory_cache_size_limit == 2
TickSeconds == 1800
MaxTicks == 2

(***************************************************************************)
(* Program constants                                                       *)
(***************************************************************************)
default_ttl == 3600

cache_prefix == "column_management:"
None == "None"
Unserializable == "object()"
Values == {"v1", "v2"}
\* t1 and t2 are two requests of one process, t3 a request of a second process;
\* each process constructs its own CacheService over the one frappe.cache()
Threads == {"t1", "t2", "t3"}
Instances == {"A", "B"}
InstOf(t) == IF t = "t3" THEN "B" ELSE "A"

Min(a, b) == IF a <= b THEN a ELSE b
Max(a, b) == IF a >= b THEN a ELSE b

(***************************************************************************)
(* Keys and patterns are sequences of characters.                          *)
(* full_key = f"{self.cache_prefix}:{key}"; the prefix and its colon are   *)
(* one token, which no pattern character matches but itself.               *)
(***************************************************************************)
FullKey(key) == <<cache_prefix>> \o key

KeyChars == {"a", "b", "."}
PatternChars == {"a", ".", "*"}
SeqsUpTo(S, n) == UNION {[1..k -> S] : k \in 1..n}
MaxKeyLen == 2
CacheKeys == SeqsUpTo(KeyChars, MaxKeyLen)
Patterns == SeqsUpTo(PatternChars, MaxKeyLen)

(***************************************************************************)
(* _match_pattern: pattern.replace("*", ".*") and re.match.  In the        *)
(* resulting regular expression "*" has become ".*" (any run), "." is the  *)
(* regex dot (any one character) and every other character of the model's  *)
(* alphabet is a literal; re.match anchors at the start of the key only.   *)
(***************************************************************************)
RECURSIVE ReMatchFrom(_, _, _, _)
ReMatchFrom(pattern, i, key, j) ==
    IF i > Len(pattern) THEN TRUE
    ELSE IF pattern[i] = "*"
         THEN \E j2 \in j..(Len(key) + 1) : ReMatchFrom(pattern, i + 1, key, j2)
    ELSE IF pattern[i] = "."
         THEN j <= Len(key) /\ ReMatchFrom(pattern, i + 1, key, j + 1)
    ELSE j <= Len(key) /\ key[j] = pattern[i] /\ ReMatchFrom(pattern, i + 1, key, j + 1)

MatchPattern(key, pattern) == ReMatchFrom(pattern, 1, key, 1)

(***************************************************************************)
(* The glob the specification describes: "*" matches any run, every other  *)
(* character is literal, and the whole key must match.                     *)
(***************************************************************************)
RECURSIVE GlobFrom(_, _, _, _)
GlobFrom(pattern, i, key, j) ==
    IF i > Len(pattern) THEN j = Len(key) + 1
    ELSE IF pattern[i] = "*"
         THEN \E j2 \in j..(Len(key) + 1) : GlobFrom(pattern, i + 1, key, j2)
    ELSE j <= Len(key) /\ key[j] = pattern[i] /\ GlobFrom(pattern, i + 1, key, j + 1)

GlobMatch(key, pattern) == GlobFrom(pattern, 1, key, 1)

(***************************************************************************)
(* Tier 1: the dict memory_cache, kept as the sequence of its items in     *)
(* insertion order (the order min() and keys() iterate in).                *)
(***************************************************************************)
Entry(key, value, t, ttl) ==
    [key |-> key, value |-> value, created_at |-> t, expires_at |-> t + ttl]

KeysOf(mc) == {mc[i].key : i \in 1..Len(mc)}
IndexOf(mc, key) == CHOOSE i \in 1..Len(mc) : mc[i].key = key
ItemOf(mc, key) == mc[IndexOf(mc, key)]
RemoveAt(mc, i) == SubSeq(mc, 1, i - 1) \o SubSeq(mc, i + 1, Len(mc))
DelKey(mc, key) == IF key \in KeysOf(mc) THEN RemoveAt(mc, IndexOf(mc, key)) ELSE mc
PutKey(mc, e) ==
    IF e.key \in KeysOf(mc) THEN [mc EXCEPT ![IndexOf(mc, e.key)] = e] ELSE Append(mc, e)

\* a plausible slip: evict the most recently created entry
NewestIndex(mc) ==
    CHOOSE i \in 1..Len(mc) :
        /\ \A j \in 1..Len(mc) : mc[i].created_at >= mc[j].created_at
        /\ \A j \in 1..(i - 1) : mc[j].created_at < mc[i].created_at

\* min(self.memory_cache.keys(), key=lambda k: created_at): the first minimal item
OldestIndex(mc) ==
    CHOOSE i \in 1..Len(mc) :
        /\ \A j \in 1..Len(mc) : mc[i].created_at <= mc[j].created_at
        /\ \A j \in 1..(i - 1) : mc[j].created_at > mc[i].created_at

\* a _set_memory_cache that evicts only once the limit is exceeded
SetMemoryCacheCheckAbove(mc, key, value, ttl, t) ==
    LET kept == IF Len(mc) > memory_cache_size_limit
                THEN RemoveAt(mc, OldestIndex(mc))
                ELSE mc
    IN  PutKey(kept, Entry(key, value, t, ttl))

\* _set_memory_cache, the body of its critical section
SetMemoryCache(mc, key, value, ttl, t) ==
    LET kept == IF Len(mc) >= memory_cache_size_limit
                THEN RemoveAt(mc, OldestIndex(mc))
                ELSE mc
    IN  PutKey(kept, Entry(key, value, t, ttl))

(***************************************************************************)
(* Tier 2 and JSON                                                         *)
(***************************************************************************)
JsonDumpsOk(value) == value # Unserializable
JsonDumps(value) == <<"json", value>>
JsonLoadsOk(text) == text[1] = "json"
JsonLoads(text) == text[2]
\* json.loads of text that is no JSON document raises json.JSONDecodeError; of
\* bytes that are no UTF-8 text it raises UnicodeDecodeError, which is none
NotJson == <<"text", "{">>
NotUtf8 == <<"bytes", "\\x80">>
RaisesJSONDecodeError(text) == text[1] = "text"

NoRedis == [present |-> FALSE, payload |-> <<>>, expires_at |-> 0]
RedisLive(rc, full_key, t) == rc[full_key].present /\ rc[full_key].expires_at > t

(***************************************************************************)
(* Threads.  A call of CacheService runs as the steps between which the    *)
(* code holds no lock: each step is one critical section of self.lock or   *)
(* one call of the tier-2 client.  th[t].op is the public method the       *)
(* thread is in and th[t].ret what its last call returned.                 *)
(***************************************************************************)
IdleThread ==
    [pc |-> "idle", op |-> "none", key |-> <<>>, value |-> None, ttl |-> 0,
     default |-> None, ret |-> None]

Bump(stats, inst, counter) == [stats EXCEPT ![inst][counter] = @ + 1]

\* the statement after self.get(...) returns `value` inside the method op
AfterGet(t, value) ==
    IF th[t].op = "get_or_set" /\ value = None
    THEN [th EXCEPT ![t].pc = "gos_call", ![t].value = value]
    ELSE IF th[t].op = "get_user_column_config" /\ value = None
    THEN [th EXCEPT ![t].pc = "config_set", ![t].value = value]
    ELSE IF th[t].op \in {"get_virtual_data", "get_virtual_columns"} /\ value = None
    THEN [th EXCEPT ![t].pc = "virtual_set", ![t].value = value]
    ELSE IF th[t].op = "increment"
    THEN [th EXCEPT ![t].pc = "incr_set", ![t].value = value]
    ELSE [th EXCEPT ![t].pc = "idle", ![t].value = value, ![t].ret = value]

\* get, lines 30-43: the tier-1 lookup under the lock
GetL1(t, op, key, default) ==
    LET inst == InstOf(t)
        mc == memory_cache[inst]
        full_key == FullKey(key)
        me == [th EXCEPT ![t] = [IdleThread EXCEPT !.op = op, !.key = key,
                                                   !.default = default, !.pc = "get_l2"]]
    IN  /\ th[t].pc = "idle"
        /\ ops' = ops + 1
        /\ IF full_key \in KeysOf(mc)
           THEN IF ItemOf(mc, full_key).expires_at > now
                THEN /\ cache_stats' = Bump(cache_stats, inst, "hits")
                     /\ memory_cache' = memory_cache
                     /\ th' = [me EXCEPT ![t].pc = IF op = "get_or_set"
                                                        /\ ItemOf(mc, full_key).value = None
                                                   THEN "gos_call"
                                                   ELSE IF op = "increment" THEN "incr_set"
                                                   ELSE "idle",
                                         ![t].value = ItemOf(mc, full_key).value,
                                         ![t].ret = IF op = "increment" THEN None
                                                    ELSE ItemOf(mc, full_key).value]
                ELSE /\ memory_cache' = [memory_cache EXCEPT ![inst] = DelKey(mc, full_key)]
                     /\ th' = me
                     /\ UNCHANGED cache_stats
           ELSE /\ th' = me
                /\ UNCHANGED <<memory_cache, cache_stats>>
        /\ UNCHANGED <<now, prefVars, redis_cache, supplier_calls>>

\* get, lines 46-66: the tier-2 read.  Nothing held, or a payload on which
\* json.loads raises JSONDecodeError, is a miss; any other exception of
\* json.loads reaches the outer handler, which returns default and counts nothing
GetL2(t) ==
    LET inst == InstOf(t)
        full_key == FullKey(th[t].key)
    IN  /\ th[t].pc = "get_l2"
        /\ IF RedisLive(redis_cache, full_key, now) /\ JsonLoadsOk(redis_cache[full_key].payload)
           THEN /\ th' = [th EXCEPT ![t].pc = "get_fill",
                                    ![t].value = JsonLoads(redis_cache[full_key].payload)]
                /\ UNCHANGED cache_stats
           ELSE IF RedisLive(redis_cache, full_key, now)
                   /\ ~RaisesJSONDecodeError(redis_cache[full_key].payload)
                THEN /\ th' = AfterGet(t, th[t].default)
                     /\ UNCHANGED cache_stats
                ELSE /\ cache_stats' = Bump(cache_stats, inst, "misses")
                     /\ th' = AfterGet(t, th[t].default)
        /\ UNCHANGED <<now, prefVars, memory_cache, redis_cache, supplier_calls, ops>>

\* a get that returns the tier-2 value without storing it in tier 1
GetFillNoStore(t) ==
    LET inst == InstOf(t)
    IN  /\ th[t].pc = "get_fill"
        /\ cache_stats' = Bump(cache_stats, inst, "hits")
        /\ th' = AfterGet(t, th[t].value)
        /\ UNCHANGED <<now, prefVars, memory_cache, redis_cache, supplier_calls, ops>>

\* a get that stores the tier-2 hit only if tier 2 still holds the key
GetFillIfHeld(t) ==
    LET inst == InstOf(t)
        full_key == FullKey(th[t].key)
    IN  /\ th[t].pc = "get_fill"
        /\ memory_cache' = [memory_cache EXCEPT ![inst] =
               IF RedisLive(redis_cache, full_key, now)
               THEN SetMemoryCache(@, full_key, th[t].value, default_ttl, now) ELSE @]
        /\ cache_stats' = Bump(cache_stats, inst, "hits")
        /\ th' = AfterGet(t, th[t].value)
        /\ UNCHANGED <<now, prefVars, redis_cache, supplier_calls, ops>>

\* a get that stores the tier-2 hit for the time the tier-2 entry has left
GetFillRemainingTtl(t) ==
    LET inst == InstOf(t)
        full_key == FullKey(th[t].key)
    IN  /\ th[t].pc = "get_fill"
        /\ memory_cache' = [memory_cache EXCEPT ![inst] =
               SetMemoryCache(@, full_key, th[t].value,
                              redis_cache[full_key].expires_at - now, now)]
        /\ cache_stats' = Bump(cache_stats, inst, "hits")
        /\ th' = AfterGet(t, th[t].value)
        /\ UNCHANGED <<now, prefVars, redis_cache, supplier_calls, ops>>

\* get, lines 52-55: the tier-2 hit is stored in tier 1 with the default TTL
GetFill(t) ==
    LET inst == InstOf(t)
    IN  /\ th[t].pc = "get_fill"
        /\ memory_cache' = [memory_cache EXCEPT ![inst] =
               SetMemoryCache(@, FullKey(th[t].key), th[t].value, default_ttl, now)]
        /\ cache_stats' = Bump(cache_stats, inst, "hits")
        /\ th' = AfterGet(t, th[t].value)
        /\ UNCHANGED <<now, prefVars, redis_cache, supplier_calls, ops>>

\* a set that writes tier 1 before it serializes the value
SetL1BodyStoreFirst(t, op, key, value, expire) ==
    LET inst == InstOf(t)
        ttl == IF expire = 0 THEN default_ttl ELSE expire
    IN  /\ memory_cache' = [memory_cache EXCEPT ![inst] =
               SetMemoryCache(@, FullKey(key), value, ttl, now)]
        /\ IF JsonDumpsOk(value)
           THEN th' = [th EXCEPT ![t].pc = "set_l2", ![t].op = op, ![t].key = key,
                                 ![t].value = value, ![t].ttl = ttl]
           ELSE th' = [th EXCEPT ![t].pc = "idle", ![t].op = op, ![t].key = key,
                                 ![t].value = value,
                                 ![t].ret = IF op = "set" THEN "False" ELSE value]

\* set, lines 71-78: ttl, json.dumps and the tier-1 write; a value json.dumps
\* rejects is logged and set returns False
SetL1Body(t, op, key, value, expire) ==
    LET inst == InstOf(t)
        ttl == IF expire = 0 THEN default_ttl ELSE expire
    IN  IF JsonDumpsOk(value)
        THEN /\ memory_cache' = [memory_cache EXCEPT ![inst] =
                    SetMemoryCache(@, FullKey(key), value, ttl, now)]
             /\ th' = [th EXCEPT ![t].pc = "set_l2", ![t].op = op, ![t].key = key,
                                 ![t].value = value, ![t].ttl = ttl]
        ELSE /\ th' = [th EXCEPT ![t].pc = "idle", ![t].op = op, ![t].key = key,
                                 ![t].value = value,
                                 ![t].ret = IF op = "set" THEN "False" ELSE value]
             /\ UNCHANGED memory_cache

SetL1(t, key, value, expire) ==
    /\ th[t].pc = "idle"
    /\ ops' = ops + 1
    /\ SetL1Body(t, "set", key, value, expire)
    /\ UNCHANGED <<now, prefVars, redis_cache, cache_stats, supplier_calls>>

\* a set whose tier-2 write stores what tier 1 holds for the key at that time
SetL2FromTier1(t) ==
    LET inst == InstOf(t)
        full_key == FullKey(th[t].key)
        value == IF full_key \in KeysOf(memory_cache[inst])
                 THEN ItemOf(memory_cache[inst], full_key).value ELSE th[t].value
    IN  /\ th[t].pc = "set_l2"
        /\ redis_cache' = [redis_cache EXCEPT ![full_key] =
               [present |-> TRUE, payload |-> JsonDumps(value),
                expires_at |-> now + th[t].ttl]]
        /\ cache_stats' = Bump(cache_stats, inst, "sets")
        /\ th' = [th EXCEPT ![t].pc = "idle",
                            ![t].ret = IF th[t].op = "set" THEN "True" ELSE th[t].value]
        /\ UNCHANGED <<now, prefVars, memory_cache, supplier_calls, ops>>

\* set, lines 81-84: the tier-2 write and the counter
SetL2(t) ==
    LET inst == InstOf(t)
        full_key == FullKey(th[t].key)
    IN  /\ th[t].pc = "set_l2"
        /\ redis_cache' = [redis_cache EXCEPT ![full_key] =
               [present |-> TRUE, payload |-> JsonDumps(th[t].value),
                expires_at |-> now + th[t].ttl]]
        /\ cache_stats' = Bump(cache_stats, inst, "sets")
        /\ th' = [th EXCEPT ![t].pc = "idle",
                            ![t].ret = IF th[t].op = "set" THEN "True" ELSE th[t].value]
        /\ UNCHANGED <<now, prefVars, memory_cache, supplier_calls, ops>>

\* delete, lines 110-115
DeleteL1(t, key) ==
    LET inst == InstOf(t)
    IN  /\ th[t].pc = "idle"
        /\ ops' = ops + 1
        /\ memory_cache' = [memory_cache EXCEPT ![inst] = DelKey(@, FullKey(key))]
        /\ th' = [th EXCEPT ![t] = [IdleThread EXCEPT !.op = "delete", !.key = key,
                                                      !.pc = "del_l2"]]
        /\ UNCHANGED <<now, prefVars, redis_cache, cache_stats, supplier_calls>>

\* delete, lines 118-121
DeleteL2(t) ==
    LET inst == InstOf(t)
    IN  /\ th[t].pc = "del_l2"
        /\ redis_cache' = [redis_cache EXCEPT ![FullKey(th[t].key)] = NoRedis]
        /\ cache_stats' = Bump(cache_stats, inst, "deletes")
        /\ th' = [th EXCEPT ![t].pc = "idle", ![t].ret = "True"]
        /\ UNCHANGED <<now, prefVars, memory_cache, supplier_calls, ops>>

\* the items delete_pattern keeps: those _match_pattern does not match
KeepUnmatched(mc, full_pattern) ==
    SelectSeq(mc, LAMBDA e : ~MatchPattern(e.key, full_pattern))

\* delete_pattern: tier 1 only, one critical section
DeletePattern(t, pattern) ==
    LET inst == InstOf(t)
    IN  /\ th[t].pc = "idle"
        /\ ops' = ops + 1
        /\ memory_cache' = [memory_cache EXCEPT ![inst] = KeepUnmatched(@, FullKey(pattern))]
        /\ th' = [th EXCEPT ![t] = [IdleThread EXCEPT !.op = "delete_pattern",
                                                      !.key = pattern, !.ret = "True"]]
        /\ UNCHANGED <<now, prefVars, redis_cache, cache_stats, supplier_calls>>

\* get_or_set, line 180: value = callback()
SupplierValue(key) == "v1"

GosCall(t) ==
    /\ th[t].pc = "gos_call"
    /\ supplier_calls' = [supplier_calls EXCEPT ![th[t].key] = @ + 1]
    /\ th' = [th EXCEPT ![t].pc = "gos_set", ![t].value = SupplierValue(th[t].key)]
    /\ UNCHANGED <<now, prefVars, memory_cache, redis_cache, cache_stats, ops>>

\* get_or_set, lines 181-184: self.set(key, value, expire) when the value is not None
GosSet(t) ==
    /\ th[t].pc = "gos_set"
    /\ IF th[t].value # None
       THEN SetL1Body(t, "get_or_set", th[t].key, th[t].value, 0)
       ELSE /\ th' = [th EXCEPT ![t].pc = "idle", ![t].ret = None]
            /\ UNCHANGED memory_cache
    /\ UNCHANGED <<now, prefVars, redis_cache, cache_stats, supplier_calls, ops>>

\* another client of the shared frappe.cache() stores a payload under the key
ForeignWrite(key, payload) ==
    /\ \A t \in Threads : th[t].pc = "idle"
    /\ redis_cache' = [redis_cache EXCEPT ![FullKey(key)] =
           [present |-> TRUE, payload |-> payload, expires_at |-> now + default_ttl]]
    /\ redis_cache' # redis_cache
    /\ UNCHANGED <<now, prefVars, memory_cache, cache_stats, th, supplier_calls, ops>>

\* the clock
Tick ==
    /\ now < MaxTicks * TickSeconds
    /\ now' = now + TickSeconds
    /\ UNCHANGED <<cacheVars, prefVars>>

(***************************************************************************)
(* Preference documents.  A dict is a function (a record) whose domain is  *)
(* the keys present; the columns section carries its Python type.          *)
(***************************************************************************)
Users == {"u1", "u2"}
Doctypes == {"Invoice"}
EmptyDict == <<>>
Dict(items) == [kind |-> "dict", items |-> items]
List(items) == [kind |-> "list", items |-> items]
Str == [kind |-> "str", items |-> <<>>]

cache_ttl == 3600

(***************************************************************************)
(* ColumnService._get_doctype_fields and _get_default_width                *)
(***************************************************************************)
SkippedFieldtypes == {"Section Break", "Column Break", "Tab Break", "HTML"}

GetDefaultWidth(fieldtype) ==
    CASE fieldtype \in {"Data", "Link", "Datetime"} -> 140
      [] fieldtype \in {"Select", "Float", "Currency"} -> 120
      [] fieldtype \in {"Int", "Percent", "Date", "Time"} -> 100
      [] fieldtype = "Check" -> 80
      [] fieldtype \in {"Text", "Small Text"} -> 200
      [] fieldtype \in {"Long Text", "Text Editor", "HTML Editor"} -> 300
      [] OTHER -> 140

\* fieldname.replace("_", " ").title(), for the field names of the model
Title(fieldname) ==
    CASE fieldname = "amount" -> "Amount"
      [] fieldname = "due_date" -> "Due Date"
      [] fieldname = "is_paid" -> "Is Paid"
      [] fieldname = "name" -> "Name"
      [] fieldname = "owner" -> "Owner"
      [] fieldname = "sb" -> "Sb"
      [] OTHER -> fieldname

FieldConfig(field) ==
    [fieldname |-> field.fieldname,
     label |-> IF field.label # None THEN field.label ELSE Title(field.fieldname),
     fieldtype |-> field.fieldtype,
     width |-> GetDefaultWidth(field.fieldtype),
     in_list_view |-> field.in_list_view,
     idx |-> field.idx]

StandardFields ==
    <<[fieldname |-> "name", label |-> "ID", fieldtype |-> "Data", width |-> 140,
       in_list_view |-> 1, idx |-> 0],
      [fieldname |-> "creation", label |-> "Created On", fieldtype |-> "Datetime",
       width |-> 140, in_list_view |-> 0, idx |-> 9999],
      [fieldname |-> "modified", label |-> "Last Modified", fieldtype |-> "Datetime",
       width |-> 140, in_list_view |-> 0, idx |-> 10000]>>

\* list.sort(key=idx): a stable sort
RECURSIVE InsertByIdx(_, _)
InsertByIdx(sorted, f) ==
    IF sorted = <<>> THEN <<f>>
    ELSE IF sorted[Len(sorted)].idx <= f.idx THEN Append(sorted, f)
    ELSE Append(InsertByIdx(SubSeq(sorted, 1, Len(sorted) - 1), f), sorted[Len(sorted)])

RECURSIVE SortByIdx(_)
SortByIdx(fields) ==
    IF fields = <<>> THEN <<>>
    ELSE InsertByIdx(SortByIdx(SubSeq(fields, 1, Len(fields) - 1)), fields[Len(fields)])

\* a slip: hidden fields are not skipped
GetDoctypeFieldsWithHidden(fields) ==
    SortByIdx(
        [n \in 1..Len(SelectSeq(fields, LAMBDA f : f.fieldtype \notin SkippedFieldtypes)) |->
            FieldConfig(SelectSeq(fields, LAMBDA f : f.fieldtype \notin SkippedFieldtypes)[n])]
        \o StandardFields)

GetDoctypeFields(fields) ==
    LET shown == SelectSeq(fields, LAMBDA f :
                     f.fieldtype \notin SkippedFieldtypes /\ f.hidden = 0)
    IN  SortByIdx([n \in 1..Len(shown) |-> FieldConfig(shown[n])] \o StandardFields)

(***************************************************************************)
(* PreferenceService._create_default_preferences                           *)
(***************************************************************************)
\* the last field of the list with this name: a later dict assignment overwrites
LastNamed(fields, fieldname) ==
    fields[CHOOSE n \in 1..Len(fields) :
               /\ fields[n].fieldname = fieldname
               /\ \A m \in (n + 1)..Len(fields) : fields[m].fieldname # fieldname]

DefaultColumnPrefs(default_columns) ==
    [fieldname \in {default_columns[n].fieldname :
                        n \in {m \in 1..Len(default_columns) :
                                   default_columns[m].in_list_view # 0}} |->
        LET field == LastNamed(SelectSeq(default_columns, LAMBDA f : f.in_list_view # 0),
                               fieldname)
        IN  [visible |-> TRUE, width |-> field.width, order |-> field.idx,
             pinned |-> None, label |-> field.label]]

CreateDefaultPreferences(fields, t) ==
    [columns |-> Dict(DefaultColumnPrefs(GetDoctypeFields(fields))),
     filters |-> [active_filters |-> <<>>, saved_filters |-> <<>>, quick_filters |-> EmptyDict],
     pagination |-> [page_size |-> 20, current_page |-> 1],
     sorting |-> [field |-> "modified", order |-> "desc"],
     view_settings |-> [show_statistics |-> TRUE, compact_view |-> FALSE,
                        auto_refresh |-> FALSE, refresh_interval |-> 30],
     last_updated |-> t,
     version |-> "1.0"]

(***************************************************************************)
(* The "User Column Preference" table and PreferenceService reads          *)
(***************************************************************************)
RowsOf(tbl, user, doctype_name) ==
    SelectSeq(tbl, LAMBDA r : r.user = user /\ r.doctype_name = doctype_name)

\* UserColumnPreference.get_user_preference and get_preference_data
GetUserPreference(tbl, user, doctype_name) ==
    IF RowsOf(tbl, user, doctype_name) = <<>> THEN EmptyDict
    ELSE JsonLoads(RowsOf(tbl, user, doctype_name)[1].preference_data)

DefaultStructure(t) ==
    [columns |-> Dict(EmptyDict), filters |-> EmptyDict, pagination |-> EmptyDict,
     sorting |-> EmptyDict, view_settings |-> EmptyDict, last_updated |-> t,
     version |-> "1.0"]

\* _fetch_user_preferences
FetchUserPreferences(tbl, fields, user, doctype_name, t) ==
    LET stored == GetUserPreference(tbl, user, doctype_name)
        pref_data == IF DOMAIN stored = {} THEN CreateDefaultPreferences(fields, t) ELSE stored
    IN  [k \in (DOMAIN pref_data) \cup (DOMAIN DefaultStructure(t)) |->
            IF k \in DOMAIN pref_data THEN pref_data[k] ELSE DefaultStructure(t)[k]]

NoCache == [present |-> FALSE, payload |-> <<>>, expires_at |-> 0]
CacheLive(c, key, t) == c[key].present /\ c[key].expires_at > t
CacheSet(c, key, payload, t, ttl) ==
    [c EXCEPT ![key] = [present |-> TRUE, payload |-> payload, expires_at |-> t + ttl]]

\* get_user_preferences: what it returns and the cache it leaves
GetUserPreferences(tbl, pc, fields, user, doctype_name, t) ==
    IF CacheLive(pc, <<user, doctype_name>>, t)
    THEN [value |-> JsonLoads(pc[<<user, doctype_name>>].payload), cache |-> pc]
    ELSE LET preferences == FetchUserPreferences(tbl, fields, user, doctype_name, t)
         IN  [value |-> preferences,
              cache |-> CacheSet(pc, <<user, doctype_name>>, JsonDumps(preferences), t,
                                 cache_ttl)]

(***************************************************************************)
(* The two validators                                                      *)
(***************************************************************************)
RequiredSections == {"columns", "filters", "pagination", "sorting", "view_settings"}

\* PreferenceService._validate_preferences: TRUE when it does not throw
ValidatePreferences(preferences) ==
    /\ RequiredSections \subseteq DOMAIN preferences
    /\ preferences.columns.kind = "dict"
    /\ \A fieldname \in DOMAIN preferences.columns.items :
         LET column_pref == preferences.columns.items[fieldname]
         IN  /\ {"visible", "width", "order"} \subseteq DOMAIN column_pref
             /\ column_pref.width >= 50
             /\ column_pref.width <= 1000

\* a slip: columns keyed by field name is let through as well
ValidatePreferenceDataAnyShape(data) ==
    \/ DOMAIN data = {}
    \/ "columns" \notin DOMAIN data
    \/ data.columns.kind = "dict"
    \/ /\ data.columns.kind = "list"
       /\ \A n \in DOMAIN data.columns.items :
            {"fieldname", "visible", "width"} \subseteq DOMAIN data.columns.items[n]

\* UserColumnPreference.validate_preference_data: TRUE when it does not throw
ValidatePreferenceData(data) ==
    \/ DOMAIN data = {}
    \/ "columns" \notin DOMAIN data
    \/ /\ data.columns.kind = "list"
       /\ \A n \in DOMAIN data.columns.items :
            {"fieldname", "visible", "width"} \subseteq DOMAIN data.columns.items[n]

\* validate_unique_preference, for the document named `name`
ValidateUniquePreference(tbl, user, doctype_name, name) ==
    \A n \in 1..Len(tbl) :
        ~(tbl[n].user = user /\ tbl[n].doctype_name = doctype_name /\ tbl[n].name # name)

\* validate_doctype_exists: the record types installed are those with a schema
ValidateDoctypeExists(doctype_name) == doctype_name \in DOMAIN meta

\* UserColumnPreference.create_or_update_preference: ok is FALSE when it throws
CreateOrUpdatePreference(tbl, user, doctype_name, preference_data, new_name) ==
    LET existing == RowsOf(tbl, user, doctype_name)
    IN  IF existing # <<>>
        THEN IF /\ ValidateDoctypeExists(doctype_name)
                /\ ValidatePreferenceData(preference_data)
                /\ ValidateUniquePreference(tbl, user, doctype_name, existing[1].name)
             THEN [ok |-> TRUE, inserted |-> FALSE,
                   table |-> [n \in 1..Len(tbl) |->
                                 IF tbl[n].name = existing[1].name
                                 THEN [tbl[n] EXCEPT !.preference_data = JsonDumps(preference_data)]
                                 ELSE tbl[n]]]
             ELSE [ok |-> FALSE, inserted |-> FALSE, table |-> tbl]
        ELSE IF /\ ValidateDoctypeExists(doctype_name)
                /\ ValidatePreferenceData(preference_data)
                /\ ValidateUniquePreference(tbl, user, doctype_name, new_name)
             THEN [ok |-> TRUE, inserted |-> TRUE,
                   table |-> Append(tbl, [name |-> new_name, user |-> user,
                                          doctype_name |-> doctype_name,
                                          preference_data |-> JsonDumps(preference_data)])]
             ELSE [ok |-> FALSE, inserted |-> FALSE, table |-> tbl]

(***************************************************************************)
(* PreferenceService writes.  Each operator gives the outcome of the call  *)
(* and the table and cache it leaves; the actions below apply them.        *)
(***************************************************************************)
\* preferences["last_updated"] = now()
Stamp(preferences, t) ==
    [k \in (DOMAIN preferences) \cup {"last_updated"} |->
        IF k = "last_updated" THEN t ELSE preferences[k]]

\* a slip: the cache is written before the document is validated
SaveUserPreferencesCacheFirst(tbl, pc, user, doctype_name, preferences, auto_save, t, new_name) ==
    LET cached == CacheSet(pc, <<user, doctype_name>>, JsonDumps(Stamp(preferences, t)), t,
                           cache_ttl)
        written == CreateOrUpdatePreference(tbl, user, doctype_name, Stamp(preferences, t),
                                            new_name)
    IN  IF ValidatePreferences(preferences) /\ written.ok
        THEN [ok |-> TRUE, raised |-> FALSE, inserted |-> written.inserted,
              table |-> written.table, cache |-> cached]
        ELSE [ok |-> FALSE, raised |-> ~auto_save, inserted |-> FALSE,
              table |-> tbl, cache |-> cached]

\* save_user_preferences: validate, stamp, persist, cache; on any exception the
\* error is logged and, unless auto_save, thrown again
SaveUserPreferences(tbl, pc, user, doctype_name, preferences, auto_save, t, new_name) ==
    LET stamped == Stamp(preferences, t)
        written == CreateOrUpdatePreference(tbl, user, doctype_name, stamped, new_name)
    IN  IF ValidatePreferences(preferences) /\ written.ok
        THEN [ok |-> TRUE, raised |-> FALSE, inserted |-> written.inserted,
              table |-> written.table,
              cache |-> CacheSet(pc, <<user, doctype_name>>, JsonDumps(stamped), t, cache_ttl)]
        ELSE [ok |-> FALSE, raised |-> ~auto_save, inserted |-> FALSE,
              table |-> tbl, cache |-> pc]

\* dict.update(updates)
DictUpdate(d, updates) ==
    [k \in (DOMAIN d) \cup (DOMAIN updates) |-> IF k \in DOMAIN updates THEN updates[k] ELSE d[k]]

\* update_filter_preferences .. update_view_settings: read, merge one section, save
UpdateSectionPreferences(tbl, pc, fields, user, doctype_name, section, updates, t, new_name) ==
    LET got == GetUserPreferences(tbl, pc, fields, user, doctype_name, t)
        current_prefs == [got.value EXCEPT ![section] = DictUpdate(@, updates)]
    IN  SaveUserPreferences(tbl, got.cache, user, doctype_name, current_prefs, TRUE, t, new_name)

\* UserColumnPreference.clear_cache -> ColumnService.clear_user_cache: a fresh
\* CacheService deletes the column configuration key from tier 2
ColumnConfigKey(doctype_name, user) ==
    <<cache_prefix, "column_management:columns:", doctype_name, ":", user>>

ClearUserCache(rc, doctype_name, user) ==
    [rc EXCEPT ![ColumnConfigKey(doctype_name, user)] = NoRedis]

NoRet ==
    [op |-> "none", user |-> "", doctype_name |-> "", auto_save |-> FALSE,
     input |-> EmptyDict, section |-> "", patch |-> EmptyDict, ok |-> FALSE,
     raised |-> FALSE, value |-> EmptyDict, count |-> 0, backup |-> 0,
     hash |-> <<>>, fieldname |-> ""]

\* get(user, recordType)
GetPrefs(user, doctype_name) ==
    LET got == GetUserPreferences(ucp_table, pref_cache, meta[doctype_name], user,
                                  doctype_name, now)
    IN  /\ pref_cache' = got.cache
        /\ pret' = [NoRet EXCEPT !.op = "get", !.user = user, !.doctype_name = doctype_name,
                                 !.ok = TRUE, !.value = got.value]
        /\ ops' = ops + 1
        /\ UNCHANGED <<now, meta, ucp_table, backup_table, sync_cache, realtime, next_name,
                       memory_cache, redis_cache, cache_stats, th, supplier_calls, syncVars, auxVars>>

\* save(user, recordType, doc)
SavePrefs(user, doctype_name, preferences, auto_save) ==
    LET saved == SaveUserPreferences(ucp_table, pref_cache, user, doctype_name, preferences,
                                     auto_save, now, next_name)
    IN  /\ ucp_table' = saved.table
        /\ pref_cache' = saved.cache
        /\ next_name' = IF saved.inserted THEN next_name + 1 ELSE next_name
        /\ redis_cache' = IF saved.ok THEN ClearUserCache(redis_cache, doctype_name, user)
                          ELSE redis_cache
        /\ pret' = [NoRet EXCEPT !.op = "save", !.user = user, !.doctype_name = doctype_name,
                                 !.auto_save = auto_save, !.input = preferences,
                                 !.ok = saved.ok, !.raised = saved.raised]
        /\ ops' = ops + 1
        /\ UNCHANGED <<now, meta, backup_table, sync_cache, realtime,
                       memory_cache, cache_stats, th, supplier_calls, syncVars, auxVars>>

\* updateSection(user, recordType, section, patch)
UpdateSection(user, doctype_name, section, updates) ==
    LET saved == UpdateSectionPreferences(ucp_table, pref_cache, meta[doctype_name], user,
                                          doctype_name, section, updates, now, next_name)
    IN  /\ ucp_table' = saved.table
        /\ pref_cache' = saved.cache
        /\ next_name' = IF saved.inserted THEN next_name + 1 ELSE next_name
        /\ redis_cache' = IF saved.ok THEN ClearUserCache(redis_cache, doctype_name, user)
                          ELSE redis_cache
        /\ pret' = [NoRet EXCEPT !.op = "update_section", !.user = user,
                                 !.doctype_name = doctype_name, !.auto_save = TRUE,
                                 !.section = section, !.patch = updates, !.ok = saved.ok]
        /\ ops' = ops + 1
        /\ UNCHANGED <<now, meta, backup_table, sync_cache, realtime,
                       memory_cache, cache_stats, th, supplier_calls, syncVars, auxVars>>

\* ColumnService.update_width_preferences: the stored document (or {}) gets the
\* key column_widths and is written back; the preference cache is not touched
UpdateWidthPreferences(user, doctype_name, width_preferences) ==
    LET existing_pref == GetUserPreference(ucp_table, user, doctype_name)
        data == DictUpdate(existing_pref, [column_widths |-> width_preferences])
        written == CreateOrUpdatePreference(ucp_table, user, doctype_name, data, next_name)
    IN  /\ ucp_table' = written.table
        /\ next_name' = IF written.inserted THEN next_name + 1 ELSE next_name
        /\ redis_cache' = IF written.ok THEN ClearUserCache(redis_cache, doctype_name, user)
                          ELSE redis_cache
        /\ pret' = [NoRet EXCEPT !.op = "update_width_preferences", !.user = user,
                                 !.doctype_name = doctype_name, !.ok = written.ok]
        /\ ops' = ops + 1
        /\ UNCHANGED <<now, meta, pref_cache, backup_table, sync_cache, realtime,
                       memory_cache, cache_stats, th, supplier_calls, syncVars, auxVars>>

\* a slip: the cache key is not cleared
ResetToDefaultsResultKeepCache(tbl, pc, fields, user, doctype_name, t) ==
    LET existing == RowsOf(tbl, user, doctype_name)
        table == IF existing = <<>> THEN tbl
                 ELSE SelectSeq(tbl, LAMBDA r : r.name # existing[1].name)
        got == GetUserPreferences(table, pc, fields, user, doctype_name, t)
    IN  [table |-> table, cache |-> got.cache, value |-> got.value,
         deleted |-> existing # <<>>]

\* reset_to_defaults: delete the stored document, clear the cache key, get again
ResetToDefaultsResult(tbl, pc, fields, user, doctype_name, t) ==
    LET existing == RowsOf(tbl, user, doctype_name)
        table == IF existing = <<>> THEN tbl
                 ELSE SelectSeq(tbl, LAMBDA r : r.name # existing[1].name)
        cleared == [pc EXCEPT ![<<user, doctype_name>>] = NoCache]
        got == GetUserPreferences(table, cleared, fields, user, doctype_name, t)
    IN  [table |-> table, cache |-> got.cache, value |-> got.value,
         deleted |-> existing # <<>>]

ResetToDefaults(user, doctype_name) ==
    LET r == ResetToDefaultsResult(ucp_table, pref_cache, meta[doctype_name], user,
                                   doctype_name, now)
    IN  /\ ucp_table' = r.table
        /\ pref_cache' = r.cache
        /\ redis_cache' = IF r.deleted THEN ClearUserCache(redis_cache, doctype_name, user)
                          ELSE redis_cache
        /\ pret' = [NoRet EXCEPT !.op = "reset_to_defaults", !.user = user,
                                 !.doctype_name = doctype_name, !.ok = TRUE,
                                 !.value = r.value]
        /\ ops' = ops + 1
        /\ UNCHANGED <<now, meta, backup_table, sync_cache, realtime, next_name,
                       memory_cache, cache_stats, th, supplier_calls, syncVars, auxVars>>

\* PreferenceService.clear_user_cache with a doctype_name: the cache key is deleted
ClearPreferenceCache(pc, user, doctype_name) == [pc EXCEPT ![<<user, doctype_name>>] = NoCache]

\* one turn of the loop of import_user_preferences; st.raised once a write threw
ImportOne(st, user, pref_data, overwrite) ==
    LET doctype_name == pref_data.doctype_name
        existing == RowsOf(st.table, user, doctype_name) # <<>>
        written == CreateOrUpdatePreference(st.table, user, doctype_name,
                                            pref_data.preference_data, st.next)
    IN  IF st.raised \/ (existing /\ ~overwrite) THEN st
        ELSE IF written.ok
             THEN [st EXCEPT !.table = written.table,
                             !.next = IF written.inserted THEN @ + 1 ELSE @,
                             !.redis = ClearUserCache(@, doctype_name, user),
                             !.cache = ClearPreferenceCache(@, user, doctype_name),
                             !.count = @ + 1]
             ELSE [st EXCEPT !.raised = TRUE]

\* the loop over import_data["preferences"]
RECURSIVE ImportAll(_, _, _, _, _)
ImportAll(st, user, preferences, n, overwrite) ==
    IF n > Len(preferences) THEN st
    ELSE ImportAll(ImportOne(st, user, preferences[n], overwrite), user, preferences, n + 1,
                   overwrite)

\* import_user_preferences: import data without the key preferences is refused
ImportUserPreferences(user, import_data, overwrite) ==
    LET st0 == [table |-> ucp_table, cache |-> pref_cache, next |-> next_name,
                redis |-> redis_cache, count |-> 0, raised |-> FALSE]
        st == IF "preferences" \in DOMAIN import_data
              THEN ImportAll(st0, user, import_data.preferences, 1, overwrite)
              ELSE [st0 EXCEPT !.raised = TRUE]
    IN  /\ ucp_table' = st.table
        /\ pref_cache' = st.cache
        /\ next_name' = st.next
        /\ redis_cache' = st.redis
        /\ pret' = [NoRet EXCEPT !.op = "import", !.user = user, !.ok = ~st.raised,
                                 !.raised = st.raised, !.count = st.count]
        /\ ops' = ops + 1
        /\ UNCHANGED <<now, meta, backup_table, sync_cache, realtime,
                       memory_cache, cache_stats, th, supplier_calls, syncVars, auxVars>>

(***************************************************************************)
(* PreferenceSyncService: content hash, session sync, backups, restore     *)
(***************************************************************************)
sync_interval == 30
backup_retention_days == 30
max_backups_per_user == 10
SecondsPerDay == 86400

\* hashlib.md5(text).hexdigest(), taken as free of collisions on the texts that occur
Md5(text) == <<"md5", text>>

\* _generate_preference_hash on a document held as a function: the text that
\* json.dumps(sort_keys=True) gives is determined by the function alone
PreferenceHash(preferences) == Md5(<<"sort_keys", preferences>>)

\* sync_preferences_across_sessions: read the preferences, store the sync record
\* for sync_interval * 2 seconds and publish it to the user's sessions
SyncAcrossSessions(st, user, doctype_name, fields, t) ==
    LET got == GetUserPreferences(st.table, st.cache, fields, user, doctype_name, t)
        sync_data == [user |-> user, doctype_name |-> doctype_name,
                      preferences |-> got.value, sync_timestamp |-> t,
                      sync_hash |-> PreferenceHash(got.value)]
    IN  [st EXCEPT !.cache = got.cache,
                   !.sync = CacheSet(@, <<user, doctype_name>>, JsonDumps(sync_data), t,
                                     sync_interval * 2),
                   !.rt = @ \cup {sync_data}]

\* check_for_preference_updates: None (NoSync) when no sync record is cached or
\* when the caller's hash is the record's; a missing hash (NoHash) is falsy
NoSync == EmptyDict
NoHash == <<>>
CheckForPreferenceUpdatesAnyHash(sc, user, doctype_name, current_hash, t) ==
    IF ~CacheLive(sc, <<user, doctype_name>>, t) THEN NoSync
    ELSE JsonLoads(sc[<<user, doctype_name>>].payload)

CheckForPreferenceUpdates(sc, user, doctype_name, current_hash, t) ==
    IF ~CacheLive(sc, <<user, doctype_name>>, t) THEN NoSync
    ELSE LET sync_data == JsonLoads(sc[<<user, doctype_name>>].payload)
         IN  IF current_hash # NoHash /\ sync_data.sync_hash = current_hash
             THEN NoSync
             ELSE sync_data

\* update_column_preferences: a column not yet in the document starts from the
\* default entry; indexing columns by fieldname fails when columns is no dict
NewColumnPreference(fieldname) ==
    [visible |-> TRUE, width |-> 140, order |-> 0, pinned |-> None, label |-> Title(fieldname)]
UpdateColumnPreferences(tbl, pc, fields, user, doctype_name, column_updates, t, new_name) ==
    LET got == GetUserPreferences(tbl, pc, fields, user, doctype_name, t)
        items == got.value.columns.items
        merged == [f \in (DOMAIN items) \cup (DOMAIN column_updates) |->
                      IF f \in DOMAIN column_updates
                      THEN DictUpdate(IF f \in DOMAIN items THEN items[f]
                                      ELSE NewColumnPreference(f), column_updates[f])
                      ELSE items[f]]
    IN  IF got.value.columns.kind # "dict" /\ DOMAIN column_updates # {}
        THEN [ok |-> FALSE, raised |-> FALSE, inserted |-> FALSE, table |-> tbl,
              cache |-> got.cache]
        ELSE SaveUserPreferences(tbl, got.cache, user, doctype_name,
                                 [got.value EXCEPT !.columns = Dict(merged)], TRUE, t, new_name)

\* bulk_update_preferences: the sections present in updates are applied in this
\* order, each by its update method; the sync runs when every one returned True
BulkOrder == <<"columns", "filters", "pagination", "sorting", "view_settings">>
BulkMerge(st, saved, user, doctype_name) ==
    [st EXCEPT !.table = saved.table,
               !.cache = saved.cache,
               !.next = IF saved.inserted THEN @ + 1 ELSE @,
               !.redis = IF saved.ok THEN ClearUserCache(@, doctype_name, user) ELSE @,
               !.count = IF saved.ok THEN @ + 1 ELSE @,
               !.all_success = @ /\ saved.ok]
BulkOne(st, user, doctype_name, section, updates, fields, t) ==
    BulkMerge(st,
              IF section = "columns"
              THEN UpdateColumnPreferences(st.table, st.cache, fields, user, doctype_name,
                                           updates, t, st.next)
              ELSE UpdateSectionPreferences(st.table, st.cache, fields, user, doctype_name,
                                            section, updates, t, st.next),
              user, doctype_name)
BulkStep(st, user, updates, n, fields, t) ==
    IF BulkOrder[n] \in DOMAIN updates
    THEN BulkOne(st, user, updates.doctype_name, BulkOrder[n], updates[BulkOrder[n]], fields, t)
    ELSE st
BulkAll(st, user, updates, fields, t) ==
    BulkStep(BulkStep(BulkStep(BulkStep(BulkStep(st, user, updates, 1, fields, t),
                                        user, updates, 2, fields, t),
                               user, updates, 3, fields, t),
                      user, updates, 4, fields, t),
             user, updates, 5, fields, t)

\* the updates without a doctype_name are refused; the sync follows when all
\* the updates returned True
BulkSync(st, user, updates) ==
    IF st.all_success
    THEN SyncAcrossSessions(st, user, updates.doctype_name, meta[updates.doctype_name], now)
    ELSE st
BulkResult(st0, user, updates) ==
    IF "doctype_name" \in DOMAIN updates
    THEN BulkSync(BulkAll(st0, user, updates, meta[updates.doctype_name], now), user, updates)
    ELSE [st0 EXCEPT !.all_success = FALSE]
BulkReturn(st, user, updates) ==
    /\ ucp_table' = st.table
    /\ pref_cache' = st.cache
    /\ sync_cache' = st.sync
    /\ realtime' = st.rt
    /\ next_name' = st.next
    /\ redis_cache' = st.redis
    /\ pret' = [NoRet EXCEPT !.op = "bulk_update", !.user = user,
                             !.doctype_name = IF "doctype_name" \in DOMAIN updates
                                              THEN updates.doctype_name ELSE "",
                             !.input = updates, !.ok = st.all_success, !.count = st.count]
    /\ ops' = ops + 1
    /\ UNCHANGED <<now, meta, backup_table, memory_cache, cache_stats, th,
                   supplier_calls, syncVars, auxVars>>

BulkUpdatePreferences(user, updates) ==
    BulkReturn(BulkResult([table |-> ucp_table, cache |-> pref_cache, sync |-> sync_cache,
                           rt |-> realtime, next |-> next_name, redis |-> redis_cache,
                           count |-> 0, all_success |-> TRUE],
                          user, updates),
               user, updates)

\* a session asks whether the preferences changed; the answer is in pret.value
CheckForUpdates(user, doctype_name, current_hash) ==
    /\ pret' = [NoRet EXCEPT !.op = "check_for_updates", !.user = user,
                             !.doctype_name = doctype_name, !.ok = TRUE,
                             !.hash = current_hash,
                             !.value = CheckForPreferenceUpdates(sync_cache, user, doctype_name,
                                                                 current_hash, now)]
    /\ ops' = ops + 1
    /\ UNCHANGED <<now, meta, ucp_table, pref_cache, backup_table, sync_cache, realtime,
                   next_name, memory_cache, redis_cache, cache_stats, th, supplier_calls, syncVars, auxVars>>

\* one turn of the loop of restore_preference_backup
RestoreOne(st, owner, doctype_name, preferences, fields, t) ==
    LET written == CreateOrUpdatePreference(st.table, owner, doctype_name, preferences, st.next)
    IN  IF written.ok
        THEN SyncAcrossSessions(
                 [st EXCEPT !.table = written.table,
                            !.next = IF written.inserted THEN @ + 1 ELSE @,
                            !.redis = ClearUserCache(@, doctype_name, owner),
                            !.count = @ + 1],
                 owner, doctype_name, fields, t)
        ELSE st

\* a slip: the loop ends at the first record type that cannot be written
RECURSIVE RestoreAllStopAtFailure(_, _, _, _, _, _)
RestoreAllStopAtFailure(st, owner, backup_data, todo, m, t) ==
    IF todo = {} THEN st
    ELSE LET doctype_name == CHOOSE d \in todo : TRUE
         IN  IF CreateOrUpdatePreference(st.table, owner, doctype_name,
                                         backup_data[doctype_name], st.next).ok
             THEN RestoreAllStopAtFailure(
                      RestoreOne(st, owner, doctype_name, backup_data[doctype_name],
                                 m[doctype_name], t),
                      owner, backup_data, todo \ {doctype_name}, m, t)
             ELSE st

\* the loop over backup_data.items()
RECURSIVE RestoreAll(_, _, _, _, _, _)
RestoreAll(st, owner, backup_data, todo, m, t) ==
    IF todo = {} THEN st
    ELSE LET doctype_name == CHOOSE d \in todo : TRUE
         IN  RestoreAll(RestoreOne(st, owner, doctype_name, backup_data[doctype_name],
                                   m[doctype_name], t),
                        owner, backup_data, todo \ {doctype_name}, m, t)

BackupRows(tbl, backup_name) == SelectSeq(tbl, LAMBDA b : b.name = backup_name)

\* restoreBackup(backup, caller): caller is None when no user is passed
RestoreBackup(backup_name, user) ==
    LET found == BackupRows(backup_table, backup_name)
        allowed == found # <<>> /\ (user = None \/ found[1].user = user)
        st0 == [table |-> ucp_table, cache |-> pref_cache, sync |-> sync_cache,
                rt |-> realtime, next |-> next_name, redis |-> redis_cache, count |-> 0]
        st == IF allowed
              THEN RestoreAll(st0, found[1].user, JsonLoads(found[1].backup_data),
                              DOMAIN JsonLoads(found[1].backup_data), meta, now)
              ELSE st0
    IN  /\ ucp_table' = st.table
        /\ pref_cache' = st.cache
        /\ sync_cache' = st.sync
        /\ realtime' = st.rt
        /\ next_name' = st.next
        /\ redis_cache' = st.redis
        /\ pret' = [NoRet EXCEPT !.op = "restore", !.user = user, !.backup = backup_name,
                                 !.ok = allowed, !.raised = ~allowed, !.count = st.count]
        /\ ops' = ops + 1
        /\ UNCHANGED <<now, meta, backup_table, memory_cache, cache_stats, th,
                       supplier_calls, syncVars, auxVars>>

\* deleteBackup(backup, caller): caller is None when no user is passed; a
\* backup that does not exist makes get_doc raise
DeleteBackup(backup_name, user) ==
    LET found == BackupRows(backup_table, backup_name)
        allowed == found # <<>> /\ (user = None \/ found[1].user = user)
    IN  /\ backup_table' = IF allowed
                           THEN SelectSeq(backup_table, LAMBDA b : b.name # backup_name)
                           ELSE backup_table
        /\ pret' = [NoRet EXCEPT !.op = "delete_backup", !.user = user,
                                 !.backup = backup_name, !.ok = allowed,
                                 !.raised = ~allowed]
        /\ ops' = ops + 1
        /\ UNCHANGED <<now, meta, ucp_table, pref_cache, sync_cache, realtime, next_name,
                       memory_cache, redis_cache, cache_stats, th, supplier_calls,
                       syncVars, auxVars>>

\* PreferenceBackup.validate_user_exists: Users are the registered users
ValidateUserExists(user) == user \in Users

\* PreferenceBackup.validate_backup_data: TRUE when it does not throw
ValidateBackupData(data) ==
    \A doctype_name \in DOMAIN data : RequiredSections \subseteq DOMAIN data[doctype_name]

ManualOf(tbl, user) ==
    {tbl[n] : n \in {m \in 1..Len(tbl) : tbl[m].user = user /\ tbl[m].backup_type = "manual"}}

\* the subsets of a set of document names that have k elements
RECURSIVE KSubsets(_, _)
KSubsets(S, k) ==
    IF k <= 0 THEN {{}}
    ELSE UNION {{{x} \cup T : T \in KSubsets({y \in S : y > x}, k - 1)} : x \in S}

\* a slip: a backup created exactly retention days ago counts as too old
ExpiredAutomaticInclusive(tbl, user, t) ==
    {tbl[n].name : n \in {m \in 1..Len(tbl) :
        /\ tbl[m].user = user /\ tbl[m].backup_type = "automatic"
        /\ tbl[m].created_at <= t - backup_retention_days * SecondsPerDay}}

\* the automatic backups of the user older than the retention period
ExpiredAutomatic(tbl, user, t) ==
    {tbl[n].name : n \in {m \in 1..Len(tbl) :
        /\ tbl[m].user = user /\ tbl[m].backup_type = "automatic"
        /\ tbl[m].created_at < t - backup_retention_days * SecondsPerDay}}

\* manual_backups[limit:] of the rows ordered by created_at descending: the sets of
\* names it can be.  Rows with equal created_at come in an order the database
\* chooses: a row with limit or more newer rows is in the tail, a row with fewer
\* than limit rows as new or newer is not, and of the others any choice that
\* makes up the length.
SliceFrom(manual_backups, limit) ==
    LET newer(b) == Cardinality({k \in manual_backups : k.created_at > b.created_at})
        notOlder(b) == Cardinality({k \in manual_backups : k.created_at >= b.created_at})
        surely == {b.name : b \in {a \in manual_backups : newer(a) >= limit}}
        maybe == {b.name : b \in {a \in manual_backups :
                                     newer(a) < limit /\ notOlder(a) > limit}}
    IN  {surely \cup d :
            d \in KSubsets(maybe, Cardinality(manual_backups) - limit - Cardinality(surely))}

\* a slip: the slice keeps one backup more than the cap
CleanupDeletionsOffByOne(tbl, user, t) ==
    {del \cup ExpiredAutomatic(tbl, user, t) :
        del \in SliceFrom(ManualOf(tbl, user), max_backups_per_user + 1)}

\* _cleanup_old_backups: the sets of names it may delete
CleanupDeletions(tbl, user, t) ==
    {del \cup ExpiredAutomatic(tbl, user, t) :
        del \in SliceFrom(ManualOf(tbl, user), max_backups_per_user)}

\* the payload of a backup of every record type of the user
AllPreferencesOf(tbl, user) ==
    [d \in {tbl[n].doctype_name : n \in {m \in 1..Len(tbl) : tbl[m].user = user}} |->
        JsonLoads(tbl[CHOOSE n \in 1..Len(tbl) :
                          /\ tbl[n].user = user /\ tbl[n].doctype_name = d
                          /\ \A m \in (n + 1)..Len(tbl) :
                               ~(tbl[m].user = user /\ tbl[m].doctype_name = d)].preference_data)]

\* createBackup(user, recordType = None means every record type, backupType)
CreateBackup(user, doctype_name, backup_type) ==
    LET got == GetUserPreferences(ucp_table, pref_cache, meta[doctype_name], user,
                                  doctype_name, now)
        preferences == IF doctype_name # None
                       THEN [d \in {doctype_name} |-> got.value]
                       ELSE AllPreferencesOf(ucp_table, user)
        row == [name |-> next_name, user |-> user,
                doctype_name |-> IF doctype_name # None THEN doctype_name ELSE "All",
                backup_type |-> backup_type, backup_data |-> JsonDumps(preferences),
                backup_hash |-> Md5(JsonDumps(preferences)), created_at |-> now]
        inserted == ValidateUserExists(user) /\ ValidateBackupData(preferences)
    IN  /\ pref_cache' = IF doctype_name # None THEN got.cache ELSE pref_cache
        /\ IF inserted
           THEN /\ \E del \in CleanupDeletions(Append(backup_table, row), user, now) :
                     backup_table' = SelectSeq(Append(backup_table, row),
                                               LAMBDA b : b.name \notin del)
                /\ next_name' = next_name + 1
                /\ backup_log' = Append(backup_log,
                                        [name |-> row.name, user |-> user,
                                         backup_type |-> backup_type, created_at |-> now])
           ELSE UNCHANGED <<backup_table, next_name, backup_log>>
        /\ pret' = [NoRet EXCEPT !.op = "create_backup", !.user = user,
                                 !.doctype_name = row.doctype_name, !.ok = inserted,
                                 !.backup = IF inserted THEN row.name ELSE 0]
        /\ ops' = ops + 1
        /\ UNCHANGED <<now, meta, ucp_table, sync_cache, realtime, redis_cache,
                       memory_cache, cache_stats, th, supplier_calls, hash_docs, hash_out,
                       auxVars>>

\* the before_reset backup of reset_to_default_configuration and what the
\* cleanup sweep may leave of the backups
ResetBackupRow(user, doctype_name, preferences) ==
    [name |-> next_name, user |-> user, doctype_name |-> doctype_name,
     backup_type |-> "before_reset", backup_data |-> JsonDumps(preferences),
     backup_hash |-> Md5(JsonDumps(preferences)), created_at |-> now]

\* reset_to_defaults and sync_preferences_across_sessions after the backup
ResetAndSync(pc, user, doctype_name) ==
    LET r == ResetToDefaultsResult(ucp_table, pc, meta[doctype_name], user, doctype_name, now)
    IN  [deleted |-> r.deleted, value |-> r.value,
         st |-> SyncAcrossSessions([table |-> r.table, cache |-> r.cache,
                                    sync |-> sync_cache, rt |-> realtime],
                                   user, doctype_name, meta[doctype_name], now)]

\* reset_to_default_configuration: it throws when no backup was created
ResetToDefaultConfiguration(user, doctype_name) ==
    LET got == GetUserPreferences(ucp_table, pref_cache, meta[doctype_name], user,
                                  doctype_name, now)
        row == ResetBackupRow(user, doctype_name, [d \in {doctype_name} |-> got.value])
        done == ResetAndSync(got.cache, user, doctype_name)
    IN  IF ValidateUserExists(user) /\ ValidateBackupData([d \in {doctype_name} |-> got.value])
        THEN /\ \E del \in CleanupDeletions(Append(backup_table, row), user, now) :
                  backup_table' = SelectSeq(Append(backup_table, row),
                                            LAMBDA b : b.name \notin del)
             /\ next_name' = next_name + 1
             /\ backup_log' = Append(backup_log,
                                     [name |-> row.name, user |-> user,
                                      backup_type |-> "before_reset", created_at |-> now])
             /\ ucp_table' = done.st.table
             /\ pref_cache' = done.st.cache
             /\ sync_cache' = done.st.sync
             /\ realtime' = done.st.rt
             /\ redis_cache' = IF done.deleted
                               THEN ClearUserCache(redis_cache, doctype_name, user)
                               ELSE redis_cache
             /\ pret' = [NoRet EXCEPT !.op = "reset_to_default_configuration",
                                      !.user = user, !.doctype_name = doctype_name,
                                      !.ok = TRUE, !.backup = row.name,
                                      !.value = done.value]
             /\ ops' = ops + 1
             /\ UNCHANGED <<now, meta, memory_cache, cache_stats, th, supplier_calls,
                            hash_docs, hash_out, auxVars>>
        ELSE /\ pref_cache' = got.cache
             /\ pret' = [NoRet EXCEPT !.op = "reset_to_default_configuration",
                                      !.user = user, !.doctype_name = doctype_name,
                                      !.raised = TRUE]
             /\ ops' = ops + 1
             /\ UNCHANGED <<now, meta, ucp_table, backup_table, sync_cache, realtime,
                            next_name, memory_cache, redis_cache, cache_stats, th,
                            supplier_calls, syncVars, auxVars>>

(***************************************************************************)
(* ColumnVirtualizationService: column positions, visible columns, buffer. *)
(* A column is a dict that may lack the key width; indices start at 0.     *)
(***************************************************************************)
default_column_width == 150
buffer_columns == 5

ColumnWidth(column) ==
    IF "width" \in DOMAIN column THEN column.width ELSE default_column_width

\* current_left when column number n (from 1) is reached
RECURSIVE LeftOf(_, _)
LeftOf(columns, n) ==
    IF n = 1 THEN 0 ELSE LeftOf(columns, n - 1) + ColumnWidth(columns[n - 1])

\* _calculate_column_positions: positions[i] for i in 0..len-1
CalculateColumnPositions(columns) ==
    [i \in 0..(Len(columns) - 1) |->
        [left |-> LeftOf(columns, i + 1),
         right |-> LeftOf(columns, i + 1) + ColumnWidth(columns[i + 1]),
         width |-> ColumnWidth(columns[i + 1]),
         fieldname |-> columns[i + 1].fieldname,
         index |-> i]]

\* _find_visible_columns: the sorted list is given as its set of indices
FindVisibleColumns(column_positions, viewport_left, viewport_width) ==
    {index \in DOMAIN column_positions :
         /\ column_positions[index].right > viewport_left
         /\ column_positions[index].left < viewport_left + viewport_width}

\* a slip: the end of the buffer is not clamped to the number of columns
AddBufferColumnsUnclamped(visible_columns, columns, buffer) ==
    IF visible_columns = {} THEN {}
    ELSE LET min_index == CHOOSE i \in visible_columns : \A j \in visible_columns : i <= j
             max_index == CHOOSE i \in visible_columns : \A j \in visible_columns : i >= j
         IN  Max(0, min_index - buffer)..(max_index + buffer)

\* _add_buffer_columns with self.buffer_columns = buffer: list(range(start, end))
AddBufferColumns(visible_columns, columns, buffer) ==
    IF visible_columns = {} THEN {}
    ELSE LET min_index == CHOOSE i \in visible_columns : \A j \in visible_columns : i <= j
             max_index == CHOOSE i \in visible_columns : \A j \in visible_columns : i >= j
             buffer_start == Max(0, min_index - buffer)
             buffer_end == Min(Len(columns), max_index + buffer + 1)
         IN  buffer_start..(buffer_end - 1)

NoWindow ==
    [called |-> FALSE, columns |-> <<>>, viewport_left |-> 0, viewport_width |-> 0,
     buffer |-> 0, positions |-> <<>>, visible |-> {}, buffered |-> {}]

\* the three steps of get_virtual_columns that compute the window
ComputeWindow(columns, viewport_left, viewport_width, buffer) ==
    LET column_positions == CalculateColumnPositions(columns)
        visible_columns == FindVisibleColumns(column_positions, viewport_left, viewport_width)
    IN  /\ window' = [called |-> TRUE, columns |-> columns, viewport_left |-> viewport_left,
                      viewport_width |-> viewport_width, buffer |-> buffer,
                      positions |-> column_positions, visible |-> visible_columns,
                      buffered |-> AddBufferColumns(visible_columns, columns, buffer)]
        /\ UNCHANGED <<now, cacheVars, meta, ucp_table, pref_cache, backup_table, sync_cache,
                       realtime, pret, next_name, syncVars, sess>>

(***************************************************************************)
(* The preference services before any call: one DocType with a listed      *)
(* field, a hidden field and a layout break; empty tables and caches.      *)
(***************************************************************************)
InvoiceFields ==
    <<[fieldname |-> "amount", label |-> None, fieldtype |-> "Currency", hidden |-> 0,
       in_list_view |-> 1, idx |-> 1],
      [fieldname |-> "sb", label |-> None, fieldtype |-> "Section Break", hidden |-> 0,
       in_list_view |-> 0, idx |-> 2],
      [fieldname |-> "due_date", label |-> "Due", fieldtype |-> "Date", hidden |-> 1,
       in_list_view |-> 1, idx |-> 3]>>

\* a request that is in no call
Sessions == {"s1", "s2"}
IdleSession ==
    [pc |-> "idle", op |-> "none", user |-> "", doctype_name |-> "", data |-> EmptyDict,
     existing |-> 0, ok |-> FALSE, done |-> 0]

AuxIdle ==
    /\ window = NoWindow
    /\ sess = [s \in Sessions |-> IdleSession]

PrefIdle ==
    /\ ucp_table = <<>>
    /\ pref_cache = [k \in Users \X Doctypes |-> NoCache]
    /\ backup_table = <<>>
    /\ sync_cache = [k \in Users \X Doctypes |-> NoCache]
    /\ realtime = {}
    /\ pret = NoRet
    /\ next_name = 1
    /\ backup_log = <<>>
    /\ hash_docs = <<>>
    /\ hash_out = <<>>

(***************************************************************************)
(* The state after CacheService() is constructed on an empty tier 2        *)
(***************************************************************************)
FullKeys ==
    {FullKey(k) : k \in CacheKeys} \cup {ColumnConfigKey(d, u) : d \in Doctypes, u \in Users}
ZeroStats == [hits |-> 0, misses |-> 0, sets |-> 0, deletes |-> 0]

CacheInit ==
    /\ now = 0
    /\ memory_cache = [i \in Instances |-> <<>>]
    /\ redis_cache = [k \in FullKeys |-> NoRedis]
    /\ cache_stats = [i \in Instances |-> ZeroStats]
    /\ th = [t \in Threads |-> IdleThread]
    /\ supplier_calls = [k \in CacheKeys |-> 0]
    /\ ops = 0
    /\ meta = [d \in Doctypes |-> InvoiceFields]
    /\ PrefIdle
    /\ AuxIdle

(***************************************************************************)
(* SpecEvict: set and get on a few keys, with the clock, on one instance.  *)
(***************************************************************************)
KeyList == <<(<<"a">>), (<<"b">>), (<<".">>), (<<"a", "b">>), (<<"a", ".">>)>>
EvictKeys == {KeyList[n] : n \in 1..Min(memory_cache_size_limit + 1, Len(KeyList))}

EvictThreads == {"t1"}
EvictOps == memory_cache_size_limit + 2

EvictNext ==
    \/ \E t \in EvictThreads, k \in EvictKeys : ops < EvictOps /\ SetL1(t, k, "v1", 0)
    \/ \E t \in EvictThreads : SetL2(t)
    \/ \E t \in EvictThreads, k \in EvictKeys : ops < EvictOps /\ GetL1(t, "get", k, None)
    \/ \E t \in EvictThreads : GetL2(t)
    \/ \E t \in EvictThreads : GetFill(t)
    \/ Tick

SpecEvict == CacheInit /\ [][EvictNext]_vars

\* the step of thread t is the tier-1 write of a set call
IsSetL1(t) == th[t].pc = "idle" /\ th'[t].pc = "set_l2" /\ th'[t].op = "set"
\* the step is a call of get that hits tier 1 (a call starts and a hit is counted)
IsGetHit ==
    /\ ops' = ops + 1
    /\ \E i \in Instances : cache_stats'[i].hits = cache_stats[i].hits + 1

DistinctKeySeqs(n) ==
    {ks \in [1..n -> CacheKeys] : \A a, b \in 1..n : a # b => ks[a] # ks[b]}

PatternContents ==
    UNION {DistinctKeySeqs(n) : n \in 0..memory_cache_size_limit}

PatternInit ==
    /\ now = 0
    /\ \E ks \in PatternContents :
         /\ memory_cache = [i \in Instances |->
                [n \in 1..Len(ks) |-> Entry(FullKey(ks[n]), "v1", 0, default_ttl)]]
         /\ redis_cache = [k \in FullKeys |->
                IF \E n \in 1..Len(ks) : k = FullKey(ks[n])
                THEN [present |-> TRUE, payload |-> JsonDumps("v1"), expires_at |-> default_ttl]
                ELSE NoRedis]
         /\ cache_stats = [i \in Instances |-> [ZeroStats EXCEPT !.sets = Len(ks)]]
    /\ th = [t \in Threads |-> IdleThread]
    /\ supplier_calls = [k \in CacheKeys |-> 0]
    /\ ops = 0
    /\ meta = [d \in Doctypes |-> InvoiceFields]
    /\ PrefIdle
    /\ AuxIdle

PatternNext ==
    \E t \in EvictThreads, p \in Patterns : ops < 1 /\ DeletePattern(t, p)

SpecPattern == PatternInit /\ [][PatternNext]_vars

\* the entries of a tier-1 content, as a set
ItemsOf(mc) == {mc[n] : n \in 1..Len(mc)}

\* C2: delete_pattern(p) removes exactly the resident tier-1 keys that glob-match
\* the prefixed pattern (* is any run, every other character literal, whole key)
\* and leaves every other entry as it was.
C2_DeletesExactlyGlobMatches ==
    [][\A t \in Threads :
         (th'[t].op = "delete_pattern" /\ ops' = ops + 1 /\ th'[t] # th[t]) =>
             ItemsOf(memory_cache'[InstOf(t)]) =
                 {e \in ItemsOf(memory_cache[InstOf(t)]) :
                      ~GlobMatch(e.key, FullKey(th'[t].key))}
      ]_vars

(***************************************************************************)
(* SpecGetOrSet: two threads of one instance call get_or_set; no entry     *)
(* expires (the clock stands still).                                       *)
(***************************************************************************)
GosKeys == {<<"a">>, <<"b">>}
GosOps == 3
GosThreads == {"t1", "t2"}

GetOrSetNext ==
    \/ \E t \in GosThreads, k \in GosKeys : ops < GosOps /\ GetL1(t, "get_or_set", k, None)
    \/ \E t \in GosThreads : GetL2(t)
    \/ \E t \in GosThreads : GetFill(t)
    \/ \E t \in GosThreads : GosCall(t)
    \/ \E t \in GosThreads : GosSet(t)
    \/ \E t \in GosThreads : SetL2(t)

SpecGetOrSet == CacheInit /\ [][GetOrSetNext]_vars

\* C3: get_or_set calls the supplier at most once per uncached key, also when
\* several calls for the key start before the first has written the value.
C3_SupplierAtMostOnce ==
    \A k \in CacheKeys : supplier_calls[k] <= 1

PrefInit ==
    /\ now = 0
    /\ memory_cache = [i \in Instances |-> <<>>]
    /\ redis_cache = [k \in FullKeys |-> NoRedis]
    /\ cache_stats = [i \in Instances |-> ZeroStats]
    /\ th = [t \in Threads |-> IdleThread]
    /\ supplier_calls = [k \in CacheKeys |-> 0]
    /\ ops = 0
    /\ meta = [d \in Doctypes |-> InvoiceFields]
    /\ PrefIdle
    /\ AuxIdle

(***************************************************************************)
(* Documents handed to save                                                *)
(***************************************************************************)
SaveWidths == {50, 150, 1000}
BadWidths == {49, 1001}

WidthDoc(width) ==
    [columns |-> Dict([amount |-> [visible |-> TRUE, width |-> width, order |-> 1]]),
     filters |-> [active_filters |-> <<>>, saved_filters |-> <<>>, quick_filters |-> EmptyDict],
     pagination |-> [page_size |-> 50, current_page |-> 1],
     sorting |-> [field |-> "creation", order |-> "asc"],
     view_settings |-> [show_statistics |-> FALSE, compact_view |-> TRUE,
                        auto_refresh |-> FALSE, refresh_interval |-> 30]]

Without(d, key) == [k \in (DOMAIN d) \ {key} |-> d[k]]

ValidDocs == {WidthDoc(w) : w \in SaveWidths}

InvalidDocs ==
    {WidthDoc(w) : w \in BadWidths}
    \cup {Without(WidthDoc(150), "sorting")}
    \cup {[WidthDoc(150) EXCEPT !.columns = Str]}
    \cup {[WidthDoc(150) EXCEPT !.columns =
               Dict([amount |-> [visible |-> TRUE, width |-> 150]])]}

(***************************************************************************)
(* SpecSave: get, save, the width update of ColumnService, reset, clock    *)
(***************************************************************************)
SaveOps == 3

SaveNext ==
    \/ \E u \in Users, d \in Doctypes : ops < SaveOps /\ GetPrefs(u, d)
    \/ \E u \in Users, d \in Doctypes, doc \in ValidDocs \cup InvalidDocs, a \in BOOLEAN :
         ops < SaveOps /\ SavePrefs(u, d, doc, a)
    \/ \E u \in Users, d \in Doctypes :
         ops < SaveOps /\ UpdateWidthPreferences(u, d, [amount |-> 200])
    \/ \E u \in Users, d \in Doctypes : ops < SaveOps /\ ResetToDefaults(u, d)
    \/ Tick

SpecSave == PrefInit /\ [][SaveNext]_vars

\* what a get of (user, doctype_name) would return in the current state
GetNow(user, doctype_name) ==
    GetUserPreferences(ucp_table, pref_cache, meta[doctype_name], user, doctype_name, now).value

\* C4: a save of a document that passes validation succeeds, and a following get
\* returns for every column exactly the width that was saved.
C4_SaveThenGetReturnsSavedWidths ==
    (pret.op = "save" /\ ValidatePreferences(pret.input)) =>
        /\ pret.ok
        /\ LET got == GetNow(pret.user, pret.doctype_name).columns
           IN  /\ got.kind = "dict"
               /\ DOMAIN got.items = DOMAIN pret.input.columns.items
               /\ \A f \in DOMAIN got.items :
                    got.items[f].width = pret.input.columns.items[f].width

\* C5: a save of a document that fails structural validation raises (it returns
\* False instead when called as an auto-save) and changes neither the table of
\* persisted documents nor the preference cache.
C5_RejectedSaveChangesNothing ==
    [][(ops' = ops + 1 /\ pret'.op = "save" /\ ~ValidatePreferences(pret'.input)) =>
          /\ ~pret'.ok
          /\ ~pret'.auto_save => pret'.raised
          /\ ucp_table' = ucp_table
          /\ pref_cache' = pref_cache
      ]_vars

\* C5 witness: a save of an invalid document has raised while a document is
\* persisted and an entry is cached for that user and record type
C5_Witness ==
    /\ pret.op = "save"
    /\ ~ValidatePreferences(pret.input)
    /\ pret.raised
    /\ RowsOf(ucp_table, pret.user, pret.doctype_name) # <<>>
    /\ pref_cache[<<pret.user, pret.doctype_name>>].present

(***************************************************************************)
(* SpecSection: updateSection on the four sections that have an update     *)
(* method, with get, the width update of ColumnService and the clock       *)
(***************************************************************************)
SectionOps == 3

PatchedSections == {"filters", "pagination", "sorting", "view_settings"}

SectionPatches(section) ==
    CASE section = "filters" -> {[active_filters |-> <<"f1">>]}
      [] section = "pagination" -> {[page_size |-> 50], [page_size |-> 100, current_page |-> 2]}
      [] section = "sorting" -> {[field |-> "creation", order |-> "asc"]}
      [] section = "view_settings" -> {[compact_view |-> TRUE]}

SectionNext ==
    \/ \E u \in Users, d \in Doctypes : ops < SectionOps /\ GetPrefs(u, d)
    \/ \E u \in Users, d \in Doctypes, s \in PatchedSections :
         \E patch \in SectionPatches(s) : ops < SectionOps /\ UpdateSection(u, d, s, patch)
    \/ \E u \in Users, d \in Doctypes :
         ops < SectionOps /\ UpdateWidthPreferences(u, d, [amount |-> 200])
    \/ Tick

SpecSection == PrefInit /\ [][SectionNext]_vars

\* what a get of (user, doctype_name) would return in the next state
GetNext(user, doctype_name) ==
    GetUserPreferences(ucp_table', pref_cache', meta[doctype_name], user, doctype_name,
                       now').value

\* C7: after an updateSection call a get returns the patched keys of the named
\* section with the patch's values and its other keys as before, and the other
\* four sections exactly as a get returned them before the call.
C7_UpdateSectionPatchesOnlyThatSection ==
    [][(ops' = ops + 1 /\ pret'.op = "update_section") =>
          LET before == GetNow(pret'.user, pret'.doctype_name)
              after == GetNext(pret'.user, pret'.doctype_name)
          IN  /\ after[pret'.section] = DictUpdate(before[pret'.section], pret'.patch)
              /\ \A s \in RequiredSections \ {pret'.section} : after[s] = before[s]
      ]_vars

(***************************************************************************)
(* SpecRestore: createBackup and restoreBackup with get, the width update  *)
(* of ColumnService and the clock                                          *)
(***************************************************************************)
RestoreOps == 3

RestoreNext ==
    \/ \E u \in Users, d \in Doctypes : ops < RestoreOps /\ GetPrefs(u, d)
    \/ \E u \in Users, d \in Doctypes \cup {None} :
         ops < RestoreOps /\ CreateBackup(u, d, "manual")
    \/ \E b \in 1..RestoreOps, u \in Users \cup {None} :
         ops < RestoreOps /\ RestoreBackup(b, u)
    \/ \E u \in Users, d \in Doctypes :
         ops < RestoreOps /\ UpdateWidthPreferences(u, d, [amount |-> 200])
    \/ Tick

SpecRestore == PrefInit /\ [][RestoreNext]_vars

\* C8: after restoreBackup by the owner the restored count is the number of record
\* types in the backup and a get returns, for each of them, the document of the
\* backup.
C8_RestoreReturnsBackupState ==
    (/\ pret.op = "restore"
     /\ BackupRows(backup_table, pret.backup) # <<>>
     /\ BackupRows(backup_table, pret.backup)[1].user = pret.user) =>
        LET backup_doc == BackupRows(backup_table, pret.backup)[1]
            backup_data == JsonLoads(backup_doc.backup_data)
        IN  /\ pret.count = Cardinality(DOMAIN backup_data)
            /\ \A d \in DOMAIN backup_data : GetNow(backup_doc.user, d) = backup_data[d]

(***************************************************************************)
(* SpecDefault: get on every small schema.  A schema is a list of up to    *)
(* MaxFields fields; a field's idx is its position.  Layout fields cannot  *)
(* be flagged for the list view.                                           *)
(***************************************************************************)
MaxFields == 2
DefaultOps == 2

SchemaFieldNames == <<"amount", "due_date", "is_paid", "sb">>

SchemaFields(n) ==
    {[fieldname |-> SchemaFieldNames[n], label |-> None, fieldtype |-> ft, hidden |-> h,
      in_list_view |-> lv, idx |-> n] :
        ft \in {"Data", "Check"}, h \in {0, 1}, lv \in {0, 1}}
    \cup {[fieldname |-> SchemaFieldNames[n], label |-> None, fieldtype |-> "Section Break",
           hidden |-> 0, in_list_view |-> 0, idx |-> n]}

Schemas ==
    UNION {{s \in [1..n -> UNION {SchemaFields(m) : m \in 1..n}] :
                \A m \in 1..n : s[m] \in SchemaFields(m)} :
           n \in 0..Min(MaxFields, Len(SchemaFieldNames))}

DefaultInit ==
    /\ now = 0
    /\ memory_cache = [i \in Instances |-> <<>>]
    /\ redis_cache = [k \in FullKeys |-> NoRedis]
    /\ cache_stats = [i \in Instances |-> ZeroStats]
    /\ th = [t \in Threads |-> IdleThread]
    /\ supplier_calls = [k \in CacheKeys |-> 0]
    /\ ops = 0
    /\ meta \in [Doctypes -> Schemas]
    /\ PrefIdle
    /\ AuxIdle

DefaultUsers == {"u1"}

DefaultNext ==
    \/ \E u \in DefaultUsers, d \in Doctypes : ops < DefaultOps /\ GetPrefs(u, d)
    \/ \E u \in DefaultUsers, d \in Doctypes :
         ops < DefaultOps /\ UpdateWidthPreferences(u, d, [amount |-> 200])
    \/ \E u \in DefaultUsers, d \in Doctypes : ops < DefaultOps /\ ResetToDefaults(u, d)
    \/ Tick

SpecDefault == DefaultInit /\ [][DefaultNext]_vars

\* the step is a get for a pair with no persisted document and no live cache entry
IsDefaultGet ==
    /\ ops' = ops + 1
    /\ pret'.op = "get"
    /\ RowsOf(ucp_table, pret'.user, pret'.doctype_name) = <<>>
    /\ ~CacheLive(pref_cache, <<pret'.user, pret'.doctype_name>>, now)

\* the positions of the schema fields flagged for the list view
ListViewFields(fields) == {n \in 1..Len(fields) : fields[n].in_list_view = 1}

\* those of them that are not hidden and not layout or HTML fields
ShownListViewFields(fields) ==
    {n \in ListViewFields(fields) :
         fields[n].hidden = 0 /\ fields[n].fieldtype \notin SkippedFieldtypes}

DefaultSections(v) ==
    /\ v.pagination.page_size = 20
    /\ v.sorting = [field |-> "modified", order |-> "desc"]
    /\ v.filters.active_filters = <<>>

DefaultColumn(col, field) ==
    /\ col.visible = TRUE
    /\ col.width = GetDefaultWidth(field.fieldtype)
    /\ col.order = field.idx

OtherBackups == 1
CapTicks == 1

CapUser == "u1"

LogOf(user, backup_type) ==
    SelectSeq(backup_log, LAMBDA e : e.user = user /\ e.backup_type = backup_type)

OthersLogged ==
    Len(SelectSeq(backup_log, LAMBDA e : ~(e.user = CapUser /\ e.backup_type = "manual")))

BackupCapNext ==
    \/ \E d \in Doctypes :
         /\ Len(LogOf(CapUser, "manual")) < max_backups_per_user + 3
         /\ CreateBackup(CapUser, d, "manual")
    \/ \E u \in Users, d \in Doctypes, bt \in {"manual", "automatic"} :
         /\ ~(u = CapUser /\ bt = "manual")
         /\ OthersLogged < OtherBackups
         /\ LogOf(CapUser, "manual") = <<>>
         /\ CreateBackup(u, d, bt)
    \/ now < CapTicks * TickSeconds /\ Tick

SpecBackupCap == PrefInit /\ [][BackupCapNext]_vars

NamesOf(rows) == {r.name : r \in rows}

\* C9: after every createBackup each user has at most max_backups_per_user manual
\* backups; once a user has created that many, exactly that many remain, and no
\* deleted one was created later than one that remains (with distinct creation
\* times: the remaining ones are the most recently created).
C9_ManualBackupCap ==
    \A u \in Users :
        LET kept == ManualOf(backup_table, u)
            created == LogOf(u, "manual")
        IN  /\ Cardinality(kept) <= max_backups_per_user
            /\ Cardinality(kept) = Min(Len(created), max_backups_per_user)
            /\ \A n \in 1..Len(created) : \A k \in kept :
                 created[n].name \notin NamesOf(kept) => created[n].created_at <= k.created_at

\* C9 witness: max_backups_per_user + 3 manual backups were created, the first
\* three before the others; the last max_backups_per_user of them remain
C9_Witness ==
    LET created == LogOf(CapUser, "manual")
    IN  /\ Len(created) = max_backups_per_user + 3
        /\ created[3].created_at < created[4].created_at
        /\ NamesOf(ManualOf(backup_table, CapUser)) =
               {created[n].name : n \in 4..(max_backups_per_user + 3)}

(***************************************************************************)
(* _generate_preference_hash on documents with their key order.  A dict is *)
(* the sequence of its (key, value) pairs in insertion order; a value is   *)
(* a number, a string or a dict.  JSON text is a sequence of tokens.       *)
(***************************************************************************)
HashKeyOrder == <<"a", "b">>
HashKeys == {HashKeyOrder[n] : n \in 1..Len(HashKeyOrder)}
HashLeaves == {<<"int", "1">>, <<"str", "1">>}

\* the dicts with keys among HashKeys, in every insertion order, over the values
OrderedDicts(values, lengths) ==
    UNION {{d \in [1..n -> HashKeys \X values] :
                \A i, j \in 1..n : i # j => d[i][1] # d[j][1]} : n \in lengths}

\* nested dicts: two keys with different values, in both orders
HashValues ==
    HashLeaves \cup {<<"dict", d>> : d \in {e \in OrderedDicts(HashLeaves, {2}) :
                                                e[1][2] # e[2][2]}}
HashDocs == OrderedDicts(HashValues, 0..2)

\* the keys of the model in str order: upper case sorts before lower case
SortedKeys ==
    <<"Invoice">> \o HashKeyOrder
    \o <<"columns", "filters", "pagination", "sorting", "view_settings">>

\* key < other, for the keys of the model (str comparison)
KeyLess(key, other) ==
    \E i, j \in 1..Len(SortedKeys) :
        SortedKeys[i] = key /\ SortedKeys[j] = other /\ i < j

\* sorted(d.items()) at this level
RECURSIVE SortItems(_)
SortItems(d) ==
    IF d = <<>> THEN <<>>
    ELSE LET first == CHOOSE n \in 1..Len(d) :
                          \A m \in 1..Len(d) : m # n => KeyLess(d[n][1], d[m][1])
         IN  <<d[first]>> \o SortItems([n \in 1..(Len(d) - 1) |->
                                           IF n < first THEN d[n] ELSE d[n + 1]])

\* json.dumps(value, sort_keys=sort_keys, separators=(',', ':'))
RECURSIVE JsonText(_, _)
RECURSIVE JsonItems(_, _)
JsonItems(items, sort_keys) ==
    IF items = <<>> THEN <<>>
    ELSE <<"\"", items[1][1], "\"", ":">> \o JsonText(items[1][2], sort_keys)
         \o (IF Len(items) > 1 THEN <<",">> ELSE <<>>)
         \o JsonItems(Tail(items), sort_keys)

JsonText(value, sort_keys) ==
    CASE value[1] = "int" -> <<value[2]>>
      [] value[1] = "str" -> <<"\"", value[2], "\"">>
      [] value[1] = "dict" ->
            <<"{">> \o JsonItems(IF sort_keys THEN SortItems(value[2]) ELSE value[2], sort_keys)
            \o <<"}">>

\* a slip: the keys are not sorted
GeneratePreferenceHashUnsorted(preferences) == Md5(JsonText(<<"dict", preferences>>, FALSE))

\* _generate_preference_hash
GeneratePreferenceHash(preferences) == Md5(JsonText(<<"dict", preferences>>, TRUE))

GenerateHash(preferences) ==
    /\ hash_docs' = IF Len(hash_docs) < 2 THEN Append(hash_docs, preferences)
                    ELSE <<hash_docs[2], preferences>>
    /\ hash_out' = IF Len(hash_out) < 2
                   THEN Append(hash_out, GeneratePreferenceHash(preferences))
                   ELSE <<hash_out[2], GeneratePreferenceHash(preferences)>>
    /\ UNCHANGED <<now, cacheVars, meta, ucp_table, pref_cache, backup_table, sync_cache,
                   realtime, pret, next_name, backup_log, auxVars>>

HashNext == \E d \in HashDocs : GenerateHash(d)

SpecHash == PrefInit /\ [][HashNext]_vars

\* the content of a document: what two dicts are compared by (==), whatever the
\* order of their keys
RECURSIVE ContentOf(_)
ContentOf(value) ==
    IF value[1] = "dict"
    THEN <<"dict", {<<value[2][n][1], ContentOf(value[2][n][2])>> : n \in 1..Len(value[2])}>>
    ELSE value

SameContent(d, e) == ContentOf(<<"dict", d>>) = ContentOf(<<"dict", e>>)

\* C10: two documents with the same content get the same hash whatever the order
\* of their keys, and two documents that differ in a field get different hashes
\* (MD5 taken as free of collisions on the serialisations).
C10_HashDependsOnContentOnly ==
    \A i, j \in 1..Len(hash_docs) :
        SameContent(hash_docs[i], hash_docs[j]) <=> hash_out[i] = hash_out[j]

\* C10 witness: two documents with the same content and different key orders, at
\* the top and in a nested dict, were hashed to the same value
C10_Witness ==
    /\ Len(hash_docs) = 2
    /\ Len(hash_docs[1]) = 2
    /\ Len(hash_docs[2]) = 2
    /\ hash_docs[1][1][1] = hash_docs[2][2][1]
    /\ hash_docs[1][1][2][1] = "dict"
    /\ hash_docs[1][1][2] # hash_docs[2][2][2]
    /\ SameContent(hash_docs[1], hash_docs[2])
    /\ hash_out[1] = hash_out[2]

(***************************************************************************)
(* SpecWindow: the window of every small column list and viewport, each    *)
(* computed once.  The instance's buffer_columns is 5 as constructed, or   *)
(* was set to 0 or 2.                                                      *)
(***************************************************************************)
MaxColumns == 8
MaxViewport == 8

WindowColumn(n) == {[fieldname |-> n], [fieldname |-> n, width |-> 1]}

\* the column lists of exactly n columns
RECURSIVE ColumnListsOf(_)
ColumnListsOf(n) ==
    IF n = 0 THEN {<<>>}
    ELSE {Append(c, x) : c \in ColumnListsOf(n - 1), x \in WindowColumn(n)}

ColumnLists == UNION {ColumnListsOf(n) : n \in 0..MaxColumns}

BufferSizes == {0, 2, buffer_columns}
ViewportWidths == {0, 1, 3}

WindowInputs ==
    {[NoWindow EXCEPT !.columns = columns, !.viewport_left = viewport_left,
                      !.viewport_width = viewport_width, !.buffer = buffer] :
        columns \in ColumnLists, viewport_left \in (-1)..MaxViewport,
        viewport_width \in ViewportWidths, buffer \in BufferSizes}

WindowInit ==
    /\ now = 0
    /\ memory_cache = [i \in Instances |-> <<>>]
    /\ redis_cache = [k \in FullKeys |-> NoRedis]
    /\ cache_stats = [i \in Instances |-> ZeroStats]
    /\ th = [t \in Threads |-> IdleThread]
    /\ supplier_calls = [k \in CacheKeys |-> 0]
    /\ ops = 0
    /\ meta = [d \in Doctypes |-> InvoiceFields]
    /\ PrefIdle
    /\ window \in WindowInputs
    /\ sess = [s \in Sessions |-> IdleSession]

WindowNext ==
    /\ ~window.called
    /\ ComputeWindow(window.columns, window.viewport_left, window.viewport_width,
                     window.buffer)

SpecWindow == WindowInit /\ [][WindowNext]_vars

\* C11: the visible set is exactly the indices whose column has right > viewport
\* left and left < viewport right, where a column starts where the one before it
\* ends; the buffered range is empty when nothing is visible and else runs from
\* max(0, minVisible - buffer) to min(columnCount - 1, maxVisible + buffer); it
\* contains the visible set and lies inside 0..columnCount - 1.
C11_WindowIsVisiblePlusBuffer ==
    window.called =>
        LET count == Len(window.columns)
            right == window.viewport_left + window.viewport_width
            p == window.positions
        IN  /\ DOMAIN p = 0..(count - 1)
            /\ \A i \in 0..(count - 1) :
                 /\ p[i].left = IF i = 0 THEN 0 ELSE p[i - 1].right
                 /\ p[i].right = p[i].left + ColumnWidth(window.columns[i + 1])
            /\ window.visible =
                   {i \in 0..(count - 1) : p[i].right > window.viewport_left /\ p[i].left < right}
            /\ window.visible \subseteq window.buffered
            /\ window.buffered \subseteq 0..(count - 1)
            /\ window.visible = {} => window.buffered = {}
            /\ window.visible # {} =>
                 \E lo, hi \in window.visible :
                     /\ \A i \in window.visible : lo <= i /\ i <= hi
                     /\ window.buffered =
                            {i \in 0..(count - 1) :
                                 i >= lo - window.buffer /\ i <= hi + window.buffer}

\* C11 witness: eight columns, the viewport inside column 5, buffer 2: the
\* buffered indices are 3..7
C11_Witness ==
    /\ window.called
    /\ Len(window.columns) = 8
    /\ window.buffer = 2
    /\ window.visible = {5}
    /\ window.buffered = 3..7

(***************************************************************************)
(* SpecTiers: two processes, each with its own CacheService, over one      *)
(* tier 2.  The calls run one after the other; the clock ticks between     *)
(* them and another client may store a payload that is no JSON.            *)
(***************************************************************************)
TierOps == 3
TierTicks == 1
TierThreads == {"t1", "t3"}
TierKeys == {<<"a">>}
ShortTtl == TickSeconds
TierExpires == {0, ShortTtl}
TierDefault == "default"
AllIdle == \A t \in Threads : th[t].pc = "idle"

\* the calls of the two processes and the clock
SharedNext ==
    \/ \E t \in TierThreads, k \in TierKeys, v \in Values \cup {Unserializable},
          e \in TierExpires :
           AllIdle /\ ops < TierOps /\ SetL1(t, k, v, e)
    \/ \E t \in TierThreads : SetL2(t)
    \/ \E t \in TierThreads, k \in TierKeys :
           AllIdle /\ ops < TierOps /\ GetL1(t, "get", k, TierDefault)
    \/ \E t \in TierThreads : GetL2(t)
    \/ \E t \in TierThreads : GetFill(t)
    \/ \E t \in TierThreads, k \in TierKeys : AllIdle /\ ops < TierOps /\ DeleteL1(t, k)
    \/ \E t \in TierThreads : DeleteL2(t)
    \/ AllIdle /\ now < TierTicks * TickSeconds /\ Tick

SpecShared == CacheInit /\ [][SharedNext]_vars

TiersNext ==
    \/ SharedNext
    \/ \E k \in TierKeys, p \in {NotJson, NotUtf8} : ForeignWrite(k, p)

SpecTiers == CacheInit /\ [][TiersNext]_vars

\* tier 2 holds a value for the key: a live payload that json.loads decodes
Tier2Holds(rc, full_key, t) == RedisLive(rc, full_key, t) /\ JsonLoadsOk(rc[full_key].payload)
Tier1Live(mc, full_key, t) == full_key \in KeysOf(mc) /\ ItemOf(mc, full_key).expires_at > t

\* the step in which thread t enters get
IsGetStart(t) ==
    /\ th[t].pc = "idle"
    /\ ops' = ops + 1
    /\ th'[t].op = "get"
    /\ \/ th'[t].pc = "get_l2"
       \/ cache_stats'[InstOf(t)].hits = cache_stats[InstOf(t)].hits + 1
\* the step in which the get of thread t returns
IsGetReturn(t) ==
    \/ IsGetStart(t) /\ th'[t].pc = "idle"
    \/ th[t].pc \in {"get_l2", "get_fill"} /\ th'[t].pc = "idle"

\* C12: get returns the tier-1 value when the key is resident and unexpired
\* and changes nothing; otherwise it removes the expired tier-1 entry, and
\* returns the tier-2 value when tier 2 holds one, after which tier 1 holds
\* the key with that value, else the default with neither tier changed.
C12_GetReadsTier1ThenTier2 ==
    [][\A t \in TierThreads :
         LET inst == InstOf(t)
             full_key == FullKey(th'[t].key)
             mc == memory_cache[inst]
             mc2 == memory_cache'[inst]
         IN  /\ IsGetStart(t) =>
                  /\ redis_cache' = redis_cache
                  /\ IF Tier1Live(mc, full_key, now)
                     THEN /\ th'[t].pc = "idle"
                          /\ th'[t].ret = ItemOf(mc, full_key).value
                          /\ mc2 = mc
                     ELSE /\ th'[t].pc = "get_l2"
                          /\ mc2 = DelKey(mc, full_key)
             /\ th[t].pc = "get_l2" /\ th'[t].pc # "get_l2" =>
                  /\ redis_cache' = redis_cache
                  /\ mc2 = mc
                  /\ IF Tier2Holds(redis_cache, full_key, now)
                     THEN th'[t].pc = "get_fill"
                     ELSE th'[t].pc = "idle" /\ th'[t].ret = TierDefault
             /\ th[t].pc = "get_fill" /\ th'[t].pc # "get_fill" =>
                  /\ redis_cache' = redis_cache
                  /\ th'[t].pc = "idle"
                  /\ th'[t].ret = JsonLoads(redis_cache[full_key].payload)
                  /\ full_key \in KeysOf(mc2)
                  /\ ItemOf(mc2, full_key).value = th'[t].ret]_vars

\* process A's entry expired while tier 2 holds the value process B set later:
\* A's get returned B's value and stored it in A's tier 1
C12_Witness ==
    /\ AllIdle
    /\ now >= TickSeconds
    /\ th["t1"].op = "get"
    /\ th["t1"].ret = "v2"
    /\ cache_stats["A"] = [hits |-> 1, misses |-> 0, sets |-> 1, deletes |-> 0]
    /\ cache_stats["B"] = [hits |-> 0, misses |-> 0, sets |-> 1, deletes |-> 0]
    /\ Len(memory_cache["A"]) = 1
    /\ memory_cache["A"][1].value = "v2"
    /\ memory_cache["A"][1].created_at = now
    /\ memory_cache["B"][1].value = "v2"

\* the value tier 2 holds for the key now, the default when it holds none
Tier2Value(rc, full_key, t, default) ==
    IF Tier2Holds(rc, full_key, t) THEN JsonLoads(rc[full_key].payload) ELSE default

\* C13: with two instances over one tier 2, whatever set and delete calls ran
\* on either, a get never returns a value other than the one tier 2 holds at
\* that moment, and returns the default when tier 2 holds nothing.
C13_GetAgreesWithTier2 ==
    [][\A t \in TierThreads :
         IsGetReturn(t) =>
            th'[t].ret = Tier2Value(redis_cache', FullKey(th'[t].key), now, TierDefault)]_vars

\* the step in which a set returns without reaching tier 2
IsFailedSet ==
    /\ AllIdle
    /\ ops' = ops + 1
    /\ \A t \in Threads : th'[t].pc = "idle"
    /\ \A i \in Instances : cache_stats'[i].hits = cache_stats[i].hits

\* C15: set with a value that cannot be serialized returns False, and tier 1,
\* tier 2 and the counters are as they were before the call.
C15_UnserializableSetChangesNothing ==
    [][IsFailedSet =>
          /\ \E t \in TierThreads :
                /\ th'[t].op = "set"
                /\ th'[t].value = Unserializable
                /\ th'[t].ret = "False"
          /\ memory_cache' = memory_cache
          /\ redis_cache' = redis_cache
          /\ cache_stats' = cache_stats]_vars

\* a set of an unserializable value returned False over a key both tiers hold
C15_Witness ==
    /\ AllIdle
    /\ th["t1"].op = "set"
    /\ th["t1"].value = Unserializable
    /\ th["t1"].ret = "False"
    /\ Len(memory_cache["A"]) = 1
    /\ memory_cache["A"][1].value = "v1"
    /\ Tier2Holds(redis_cache, FullKey(<<"a">>), now)
    /\ cache_stats["A"].sets = 1

\* C16: when tier 2 holds a payload json.loads cannot decode and the key is
\* not live in tier 1, get returns the default, leaves tier 1 as it is and
\* counts one miss.
C16_MalformedPayloadIsAMiss ==
    [][\A t \in TierThreads :
         LET inst == InstOf(t)
             full_key == FullKey(th[t].key)
         IN  /\ th[t].pc = "get_l2"
             /\ th'[t].pc # "get_l2"
             /\ RedisLive(redis_cache, full_key, now)
             /\ ~JsonLoadsOk(redis_cache[full_key].payload)
             => /\ th'[t].pc = "idle"
                /\ th'[t].ret = TierDefault
                /\ memory_cache' = memory_cache
                /\ cache_stats'[inst].misses = cache_stats[inst].misses + 1]_vars

(***************************************************************************)
(* SpecRace: two requests of one process call set, get, delete and         *)
(* delete_pattern on the same CacheService; their steps interleave freely. *)
(***************************************************************************)
RaceOps == 3
RaceThreads == {"t1", "t2"}
RaceKeys == {<<"a">>, <<"b">>, <<"a", "b">>}
RacePatterns == {<<"a">>, <<"*">>}

RaceNext ==
    \/ \E t \in RaceThreads, k \in RaceKeys : ops < RaceOps /\ SetL1(t, k, "v1", 0)
    \/ \E t \in RaceThreads : SetL2(t)
    \/ \E t \in RaceThreads, k \in RaceKeys : ops < RaceOps /\ GetL1(t, "get", k, None)
    \/ \E t \in RaceThreads : GetL2(t)
    \/ \E t \in RaceThreads : GetFill(t)
    \/ \E t \in RaceThreads, k \in RaceKeys : ops < RaceOps /\ DeleteL1(t, k)
    \/ \E t \in RaceThreads : DeleteL2(t)
    \/ \E t \in RaceThreads, p \in RacePatterns : ops < RaceOps /\ DeletePattern(t, p)

SpecRace == CacheInit /\ [][RaceNext]_vars

\* C14: whatever the interleaving of concurrent set, get, delete and
\* delete_pattern calls on one instance, tier 1 never holds more entries than
\* memory_cache_size_limit.
C14_Tier1NeverExceedsLimit ==
    \A i \in Instances : Len(memory_cache[i]) <= memory_cache_size_limit

\* both requests are between the tier-1 and the tier-2 write of a set of
\* different keys on a tier 1 that was full: one entry was evicted for each
C14_Witness ==
    /\ th["t1"].pc = "set_l2"
    /\ th["t2"].pc = "set_l2"
    /\ th["t1"].key # th["t2"].key
    /\ cache_stats["A"].sets >= 1
    /\ Len(memory_cache["A"]) = memory_cache_size_limit
    /\ KeysOf(memory_cache["A"]) = {FullKey(th["t1"].key), FullKey(th["t2"].key)}
    /\ \E k \in RaceKeys : /\ FullKey(k) \notin KeysOf(memory_cache["A"])
                           /\ RedisLive(redis_cache, FullKey(k), now)

(***************************************************************************)
(* SpecImport: get, import, the width update of ColumnService, reset, clock*)
(***************************************************************************)
ImportOps == 3
\* a document whose columns are a list, as the doctype validator wants them
ListDoc == [WidthDoc(150) EXCEPT !.columns = List(<<>>)]
ImportDocs ==
    {ListDoc, WidthDoc(150), Without(ListDoc, "sorting"), [column_widths |-> [amount |-> 120]]}
ImportItems == {[doctype_name |-> d, preference_data |-> doc] : d \in Doctypes, doc \in ImportDocs}
ImportData ==
    {EmptyDict, [preferences |-> <<>>]}
    \cup {[preferences |-> <<i>>] : i \in ImportItems}
    \cup {[preferences |-> <<i, j>>] : i, j \in ImportItems}
ImportUsers == {"u1"}

ImportNext ==
    \/ \E u \in ImportUsers, d \in Doctypes : ops < ImportOps /\ GetPrefs(u, d)
    \/ \E u \in ImportUsers, data \in ImportData, overwrite \in BOOLEAN :
         ops < ImportOps /\ ImportUserPreferences(u, data, overwrite)
    \/ \E u \in ImportUsers, d \in Doctypes :
         ops < ImportOps /\ UpdateWidthPreferences(u, d, [amount |-> 200])
    \/ \E u \in ImportUsers, d \in Doctypes : ops < ImportOps /\ ResetToDefaults(u, d)
    \/ Tick

SpecImport == PrefInit /\ [][ImportNext]_vars

\* C19: every persisted preference document has the five sections columns,
\* filters, pagination, sorting and view_settings.
C19_PersistedHasFiveSections ==
    \A n \in 1..Len(ucp_table) :
        RequiredSections \subseteq DOMAIN JsonLoads(ucp_table[n].preference_data)

(***************************************************************************)
(* SpecPublish: save, updateSection, the bulk update of the API, the width *)
(* update of ColumnService, a session's check for updates, clock           *)
(***************************************************************************)
PublishOps == 3
PublishUsers == {"u1"}
BulkUpdates ==
    {EmptyDict,
     [doctype_name |-> "Invoice"],
     [doctype_name |-> "Invoice", pagination |-> [page_size |-> 50]],
     [doctype_name |-> "Invoice", columns |-> [amount |-> [width |-> 200]],
      sorting |-> [field |-> "creation", order |-> "asc"]]}

\* the hash a session holds: none, or that of what get returns to it now
SessionHashes(user, doctype_name) ==
    {NoHash,
     PreferenceHash(GetUserPreferences(ucp_table, pref_cache, meta[doctype_name], user,
                                       doctype_name, now).value)}

\* the hash of a document the session fetched before any sync record was written
StaleHash == PreferenceHash(EmptyDict)

PublishNext ==
    \/ \E u \in PublishUsers, d \in Doctypes, doc \in ValidDocs, a \in BOOLEAN :
         ops < PublishOps /\ SavePrefs(u, d, doc, a)
    \/ \E u \in PublishUsers, d \in Doctypes, s \in PatchedSections :
         \E patch \in SectionPatches(s) : ops < PublishOps /\ UpdateSection(u, d, s, patch)
    \/ \E u \in PublishUsers, updates \in BulkUpdates :
         ops < PublishOps /\ BulkUpdatePreferences(u, updates)
    \/ \E u \in PublishUsers, d \in Doctypes :
         ops < PublishOps /\ UpdateWidthPreferences(u, d, [amount |-> 200])
    \/ \E u \in PublishUsers, d \in Doctypes :
         \E h \in SessionHashes(u, d) \cup {StaleHash} :
            ops < PublishOps /\ CheckForUpdates(u, d, h)
    \/ Tick

SpecPublish == PrefInit /\ [][PublishNext]_vars

\* the step is a save of a document that passes _validate_preferences, or an
\* updateSection, of (user, doctype_name), and the call returned
IsWrite(user, doctype_name) ==
    /\ ops' = ops + 1
    /\ ~pret'.raised
    /\ pret'.user = user
    /\ pret'.doctype_name = doctype_name
    /\ \/ pret'.op = "save" /\ ValidatePreferences(pret'.input)
       \/ pret'.op = "update_section"

\* C20: once a write of a preference document (a save of a valid document, an
\* updateSection) has returned, a sync record for (user, recordType) is
\* cached, and a session that checks for updates with the hash it held
\* before the write is handed that record.
C20_WriteIsPublished ==
    [][\A u \in PublishUsers, d \in Doctypes :
         IsWrite(u, d) =>
            \A h \in SessionHashes(u, d) :
               CheckForPreferenceUpdates(sync_cache', u, d, h, now) # NoSync]_vars

\* the step is a call of check_for_preference_updates for (user, doctype_name)
IsCheck(user, doctype_name) ==
    /\ ops' = ops + 1
    /\ pret'.op = "check_for_updates"
    /\ pret'.user = user
    /\ pret'.doctype_name = doctype_name

\* the live sync record of (user, doctype_name) in the shared cache, if any
SyncRecordLive(user, doctype_name) ==
    /\ sync_cache[<<user, doctype_name>>].present
    /\ sync_cache[<<user, doctype_name>>].expires_at > now

\* C21: a check for updates returns the sync record exactly when a live sync
\* record of (user, recordType) exists and its hash differs from the hash the
\* caller knows; otherwise it returns nothing.  It does not raise and it
\* changes neither the documents, the caches, the backups nor the messages.
C21_CheckReturnsRecordIffHashDiffers ==
    [][\A u \in PublishUsers, d \in Doctypes :
         IsCheck(u, d) =>
            /\ ~pret'.raised
            /\ IF SyncRecordLive(u, d)
                  /\ sync_cache[<<u, d>>].payload[2].sync_hash # pret'.hash
               THEN /\ DOMAIN pret'.value # {}
                    /\ pret'.value = sync_cache[<<u, d>>].payload[2]
               ELSE DOMAIN pret'.value = {}
            /\ UNCHANGED <<now, meta, ucp_table, pref_cache, backup_table, sync_cache,
                           realtime, next_name, redis_cache, memory_cache>>]_vars

\* a session that holds the hash of the live sync record was told "no update"
C21_Witness ==
    /\ pret.op = "check_for_updates"
    /\ pret.hash # NoHash
    /\ SyncRecordLive(pret.user, pret.doctype_name)
    /\ sync_cache[<<pret.user, pret.doctype_name>>].payload[2].sync_hash = pret.hash
    /\ DOMAIN pret.value = {}

(***************************************************************************)
(* SpecRetention: one user creates automatic backups while the days pass,  *)
(* then manual backups past the cap                                        *)
(***************************************************************************)
RetentionTicks == 3
RetentionStep == (backup_retention_days * SecondsPerDay) \div 2
RetentionCreates == max_backups_per_user + 1

AutomaticOf(tbl, user) ==
    {tbl[n] : n \in {m \in 1..Len(tbl) : tbl[m].user = user /\ tbl[m].backup_type = "automatic"}}

\* the clock moves on by half the retention period
Sleep ==
    /\ now' = now + RetentionStep
    /\ UNCHANGED <<cacheVars, prefVars>>

RetentionNext ==
    \/ \E d \in Doctypes :
         /\ Len(LogOf(CapUser, "automatic")) < RetentionCreates + 1
         /\ LogOf(CapUser, "manual") = <<>>
         /\ CreateBackup(CapUser, d, "automatic")
    \/ \E d \in Doctypes :
         /\ Len(LogOf(CapUser, "manual")) < RetentionCreates
         /\ CreateBackup(CapUser, d, "manual")
    \/ /\ now < RetentionTicks * RetentionStep
       /\ LogOf(CapUser, "manual") = <<>>
       /\ Sleep

SpecRetention == PrefInit /\ [][RetentionNext]_vars

\* C22: when createBackup has created a backup and returns, the user has no
\* automatic backup older than backup_retention_days and at most
\* max_backups_per_user manual backups; every automatic backup that was inside
\* the retention window is still there, whatever their number; and no manual
\* backup is deleted unless the manual backups alone exceed the cap.
C22_BothRetentionBoundsOnCreate ==
    [][(pret'.op = "create_backup" /\ pret'.ok /\ ops' = ops + 1) =>
         LET u == pret'.user
             oldest == now - backup_retention_days * SecondsPerDay
         IN  /\ \A b \in AutomaticOf(backup_table', u) : b.created_at >= oldest
             /\ Cardinality(ManualOf(backup_table', u)) <= max_backups_per_user
             /\ \A b \in AutomaticOf(backup_table, u) :
                  b.created_at >= oldest => b \in AutomaticOf(backup_table', u)
             /\ Cardinality(ManualOf(backup_table, u)) < max_backups_per_user =>
                  ManualOf(backup_table, u) \subseteq ManualOf(backup_table', u)]_vars

\* C22 witness: more automatic backups than the cap are kept inside the window
\* next to a full set of manual backups, after an automatic backup aged out
\* and a manual backup was deleted for the cap
C22_Witness ==
    /\ pret.op = "create_backup" /\ pret.ok
    /\ Cardinality(AutomaticOf(backup_table, CapUser)) > max_backups_per_user
    /\ Cardinality(ManualOf(backup_table, CapUser)) = max_backups_per_user
    /\ Len(LogOf(CapUser, "manual")) > max_backups_per_user
    /\ \E n \in 1..Len(backup_log) :
         /\ backup_log[n].backup_type = "automatic"
         /\ backup_log[n].name \notin NamesOf(AutomaticOf(backup_table, CapUser))

(***************************************************************************)
(* SpecOwner: createBackup, restoreBackup and deleteBackup called by the   *)
(* owner, by another user and without a caller                             *)
(***************************************************************************)
OwnerNext ==
    \/ RestoreNext
    \/ \E b \in 1..RestoreOps, u \in Users \cup {None} :
         ops < RestoreOps /\ DeleteBackup(b, u)

SpecOwner == PrefInit /\ [][OwnerNext]_vars

\* C23: a restoreBackup or deleteBackup of an existing backup by a caller who is
\* not its owner (a call without a caller included) fails with an error,
\* writes no preference document, publishes no sync record and deletes no
\* backup.
C23_OnlyOwnerRestoresOrDeletes ==
    [][(/\ ops' = ops + 1
        /\ pret'.op \in {"restore", "delete_backup"}
        /\ BackupRows(backup_table, pret'.backup) # <<>>
        /\ BackupRows(backup_table, pret'.backup)[1].user # pret'.user) =>
          /\ pret'.raised
          /\ UNCHANGED <<ucp_table, sync_cache, realtime, backup_table>>]_vars

(***************************************************************************)
(* SpecTolerant: two record types; one user imports documents for both,    *)
(* backs them up, a record type is uninstalled, the backup is restored     *)
(***************************************************************************)
TolerantOps == 4
TolerantUser == "u1"
InstalledDoctypes == {"Invoice", "Order"}
PagedDoc(page_size) == [ListDoc EXCEPT !.pagination.page_size = page_size]
TolerantImports ==
    {[preferences |-> <<[doctype_name |-> "Invoice", preference_data |-> PagedDoc(n)],
                        [doctype_name |-> "Order", preference_data |-> PagedDoc(n)]>>] :
        n \in {20, 50}}

TolerantInit ==
    /\ now = 0
    /\ memory_cache = [i \in Instances |-> <<>>]
    /\ redis_cache = [k \in FullKeys \cup {ColumnConfigKey(d, u) :
                                              d \in InstalledDoctypes, u \in Users} |-> NoRedis]
    /\ cache_stats = [i \in Instances |-> ZeroStats]
    /\ th = [t \in Threads |-> IdleThread]
    /\ supplier_calls = [k \in CacheKeys |-> 0]
    /\ ops = 0
    /\ meta = [d \in InstalledDoctypes |-> InvoiceFields]
    /\ ucp_table = <<>>
    /\ pref_cache = [k \in Users \X InstalledDoctypes |-> NoCache]
    /\ backup_table = <<>>
    /\ sync_cache = [k \in Users \X InstalledDoctypes |-> NoCache]
    /\ realtime = {}
    /\ pret = NoRet
    /\ next_name = 1
    /\ backup_log = <<>>
    /\ hash_docs = <<>>
    /\ hash_out = <<>>
    /\ AuxIdle

\* a record type is uninstalled; the documents kept for it stay in the table
DeleteDoctype(doctype_name) ==
    /\ doctype_name \in DOMAIN meta
    /\ meta' = [d \in DOMAIN meta \ {doctype_name} |-> meta[d]]
    /\ UNCHANGED <<now, ucp_table, pref_cache, backup_table, sync_cache, realtime, pret,
                   next_name, cacheVars, syncVars, auxVars>>

TolerantNext ==
    \/ \E data \in TolerantImports :
         ops < TolerantOps /\ ImportUserPreferences(TolerantUser, data, TRUE)
    \/ \E d \in DOMAIN meta \cup {None} :
         ops < TolerantOps /\ CreateBackup(TolerantUser, d, "manual")
    \/ \E b \in 1..TolerantOps :
         ops < TolerantOps /\ RestoreBackup(b, TolerantUser)
    \/ \E d \in InstalledDoctypes : DeleteDoctype(d)

SpecTolerant == TolerantInit /\ [][TolerantNext]_vars

\* the write of the record type's payload by restore succeeds
Restorable(owner, doctype_name, preferences) ==
    /\ doctype_name \in DOMAIN meta
    /\ ValidatePreferenceData(preferences)
    /\ Len(RowsOf(ucp_table, owner, doctype_name)) <= 1

\* the persisted document of (user, doctype_name) in the next state, if any
PersistedNext(user, doctype_name) ==
    LET rows == RowsOf(ucp_table', user, doctype_name)
    IN  IF rows = <<>> THEN EmptyDict ELSE JsonLoads(rows[1].preference_data)

\* C24: a restore by the owner does not raise when record types of the backup
\* cannot be written: it returns the number of record types whose write
\* succeeds, the persisted document of each of those is the backup's payload
\* for it, and the documents of the others are left as they were.
C24_RestoreToleratesFailedTypes ==
    [][(/\ ops' = ops + 1
        /\ pret'.op = "restore"
        /\ BackupRows(backup_table, pret'.backup) # <<>>
        /\ BackupRows(backup_table, pret'.backup)[1].user = pret'.user) =>
          LET owner == pret'.user
              backup_data == JsonLoads(BackupRows(backup_table, pret'.backup)[1].backup_data)
              restored == {d \in DOMAIN backup_data : Restorable(owner, d, backup_data[d])}
          IN  /\ ~pret'.raised
              /\ pret'.count = Cardinality(restored)
              /\ \A d \in restored : PersistedNext(owner, d) = backup_data[d]
              /\ \A d \in DOMAIN backup_data \ restored :
                   RowsOf(ucp_table', owner, d) = RowsOf(ucp_table, owner, d)]_vars

\* C24 witness: a backup of two record types was restored after one of them
\* was uninstalled and both documents had changed: one was written, the other
\* still differs from the backup
C24_Witness ==
    /\ pret.op = "restore" /\ pret.ok /\ pret.count = 1
    /\ BackupRows(backup_table, pret.backup) # <<>>
    /\ LET backup_data == JsonLoads(BackupRows(backup_table, pret.backup)[1].backup_data)
       IN  /\ DOMAIN backup_data = InstalledDoctypes
           /\ \E d \in InstalledDoctypes : \E e \in InstalledDoctypes \ {d} :
                /\ d \notin DOMAIN meta
                /\ RowsOf(ucp_table, pret.user, d) # <<>>
                /\ JsonLoads(RowsOf(ucp_table, pret.user, d)[1].preference_data) # backup_data[d]
                /\ RowsOf(ucp_table, pret.user, e) # <<>>
                /\ JsonLoads(RowsOf(ucp_table, pret.user, e)[1].preference_data) = backup_data[e]

(***************************************************************************)
(* SpecReset: a registered user and a caller that is no registered user   *)
(* import documents, read them and reset to the default configuration      *)
(***************************************************************************)
ResetOps == 3
Unregistered == "u3"
ResetCallers == {"u1", Unregistered}
ResetImports ==
    {[preferences |-> <<[doctype_name |-> "Invoice", preference_data |-> doc]>>] :
        doc \in {PagedDoc(50), [column_widths |-> [amount |-> 120]]}}

ResetInit ==
    /\ now = 0
    /\ memory_cache = [i \in Instances |-> <<>>]
    /\ redis_cache = [k \in FullKeys \cup {ColumnConfigKey(d, u) :
                                              d \in Doctypes, u \in ResetCallers} |-> NoRedis]
    /\ cache_stats = [i \in Instances |-> ZeroStats]
    /\ th = [t \in Threads |-> IdleThread]
    /\ supplier_calls = [k \in CacheKeys |-> 0]
    /\ ops = 0
    /\ meta = [d \in Doctypes |-> InvoiceFields]
    /\ ucp_table = <<>>
    /\ pref_cache = [k \in (Users \cup ResetCallers) \X Doctypes |-> NoCache]
    /\ backup_table = <<>>
    /\ sync_cache = [k \in (Users \cup ResetCallers) \X Doctypes |-> NoCache]
    /\ realtime = {}
    /\ pret = NoRet
    /\ next_name = 1
    /\ backup_log = <<>>
    /\ hash_docs = <<>>
    /\ hash_out = <<>>
    /\ AuxIdle

ResetNext ==
    \/ \E u \in ResetCallers, d \in Doctypes : ops < ResetOps /\ GetPrefs(u, d)
    \/ \E u \in ResetCallers, data \in ResetImports :
         ops < ResetOps /\ ImportUserPreferences(u, data, TRUE)
    \/ \E u \in ResetCallers, d \in Doctypes :
         ops < ResetOps /\ ResetToDefaultConfiguration(u, d)
    \/ Tick

SpecReset == ResetInit /\ [][ResetNext]_vars

\* the step is a call of reset_to_default_configuration
IsResetCall == ops' = ops + 1 /\ pret'.op = "reset_to_default_configuration"

\* the call returned: a before_reset backup of the caller holds the document a
\* get returned before the call, no document is persisted for the pair and a
\* get returns the default document
ResetDone(user, doctype_name) ==
    /\ \E n \in 1..Len(backup_table') :
         /\ backup_table'[n].name = pret'.backup
         /\ backup_table'[n].user = user
         /\ backup_table'[n].backup_type = "before_reset"
         /\ JsonLoads(backup_table'[n].backup_data) =
                [d \in {doctype_name} |-> GetNow(user, doctype_name)]
    /\ RowsOf(ucp_table', user, doctype_name) = <<>>
    /\ GetNext(user, doctype_name) =
           FetchUserPreferences(<<>>, meta[doctype_name], user, doctype_name, now)
    /\ GetNext(user, doctype_name).pagination.page_size = 20
    /\ GetNext(user, doctype_name).sorting.field = "modified"

\* C25 as stated: reset_to_default_configuration deletes the persisted
\* document only after a before_reset backup holding the pre-reset document
\* was created and a following get returns the default document (page size
\* 20, sorted by modified); when the backup cannot be created the call fails
\* and the documents and the cache are unchanged.
C25_ResetLeavesCacheUnchangedOnFailure ==
    [][IsResetCall =>
         IF pret'.raised
         THEN ucp_table' = ucp_table /\ pref_cache' = pref_cache
         ELSE ResetDone(pret'.user, pret'.doctype_name)]_vars

\* C25, amended: as above, but when the backup cannot be created the
\* documents are unchanged, no live cache entry is cleared or replaced and a
\* get returns what it returned before the call (the read made for the
\* backup may have filled the cache).
C25_ResetOnlyAfterBackup ==
    [][IsResetCall =>
         IF pret'.raised
         THEN /\ ucp_table' = ucp_table
              /\ \A k \in DOMAIN pref_cache :
                   CacheLive(pref_cache, k, now) => pref_cache'[k] = pref_cache[k]
              /\ GetNext(pret'.user, pret'.doctype_name) =
                     GetNow(pret'.user, pret'.doctype_name)
         ELSE ResetDone(pret'.user, pret'.doctype_name)]_vars

\* C25 witness: a reset deleted a persisted document with page size 50; the
\* backup holds that page size and a get returns page size 20
C25_Witness ==
    /\ pret.op = "reset_to_default_configuration" /\ pret.ok
    /\ RowsOf(ucp_table, pret.user, pret.doctype_name) = <<>>
    /\ GetNow(pret.user, pret.doctype_name).pagination.page_size = 20
    /\ \E n \in 1..Len(backup_table) :
         /\ backup_table[n].name = pret.backup
         /\ JsonLoads(backup_table[n].backup_data)[pret.doctype_name].pagination =
                [page_size |-> 50, current_page |-> 1]

(***************************************************************************)
(* MetadataService over frappe.cache().  The live schema of a record type  *)
(* is meta[doctype]; a field's metadata dictionary keeps the attributes    *)
(* the model's schemas carry.                                               *)
(***************************************************************************)
metadata_cache_prefix == "column_management_metadata"
metadata_cache_ttl == 7200

DoctypeKey(doctype) == <<metadata_cache_prefix, ":doctype:", doctype>>
FieldKey(doctype, fieldname) == <<metadata_cache_prefix, ":field:", doctype, ":", fieldname>>

\* _get_field_metadata_dict
GetFieldMetadataDict(field) ==
    [fieldname |-> field.fieldname,
     label |-> IF field.label # None THEN field.label ELSE Title(field.fieldname),
     fieldtype |-> field.fieldtype, hidden |-> field.hidden,
     in_list_view |-> field.in_list_view, idx |-> field.idx, is_virtual |-> 0]

\* _get_standard_fields
GetStandardFields ==
    <<[fieldname |-> "name", label |-> "ID", fieldtype |-> "Data", hidden |-> 0,
       in_list_view |-> 1, idx |-> 0, is_virtual |-> 0],
      [fieldname |-> "owner", label |-> "Created By", fieldtype |-> "Link", hidden |-> 0,
       in_list_view |-> 0, idx |-> 9997, is_virtual |-> 0],
      [fieldname |-> "creation", label |-> "Created On", fieldtype |-> "Datetime",
       hidden |-> 0, in_list_view |-> 0, idx |-> 9998, is_virtual |-> 0],
      [fieldname |-> "modified", label |-> "Last Modified", fieldtype |-> "Datetime",
       hidden |-> 0, in_list_view |-> 0, idx |-> 9999, is_virtual |-> 0],
      [fieldname |-> "modified_by", label |-> "Last Modified By", fieldtype |-> "Link",
       hidden |-> 0, in_list_view |-> 0, idx |-> 10000, is_virtual |-> 0]>>

\* _fetch_doctype_metadata of a record type that exists
FetchDoctypeMetadata(doctype) ==
    [name |-> doctype,
     fields |-> [n \in 1..Len(meta[doctype]) |-> GetFieldMetadataDict(meta[doctype][n])]
                \o GetStandardFields]

\* get_doctype_metadata: the value (raised when the record type does not exist)
\* and the cache it leaves
DoctypeMetadata(rc, doctype, t) ==
    IF CacheLive(rc, DoctypeKey(doctype), t)
    THEN [raised |-> FALSE, value |-> JsonLoads(rc[DoctypeKey(doctype)].payload), cache |-> rc]
    ELSE IF doctype \notin DOMAIN meta
         THEN [raised |-> TRUE, value |-> EmptyDict, cache |-> rc]
         ELSE [raised |-> FALSE, value |-> FetchDoctypeMetadata(doctype),
               cache |-> CacheSet(rc, DoctypeKey(doctype),
                                  JsonDumps(FetchDoctypeMetadata(doctype)), t,
                                  metadata_cache_ttl)]

\* the first field of the list with this name
FirstNamed(fields, fieldname) ==
    fields[CHOOSE n \in 1..Len(fields) :
               /\ fields[n].fieldname = fieldname
               /\ \A m \in 1..(n - 1) : fields[m].fieldname # fieldname]

HasField(fields, fieldname) == \E n \in 1..Len(fields) : fields[n].fieldname = fieldname

\* get_field_metadata on a miss of the field key
FieldMetadataFrom(got, doctype, fieldname, t) ==
    IF got.raised \/ ~HasField(got.value.fields, fieldname)
    THEN [raised |-> TRUE, value |-> EmptyDict, cache |-> got.cache]
    ELSE [raised |-> FALSE, value |-> FirstNamed(got.value.fields, fieldname),
          cache |-> CacheSet(got.cache, FieldKey(doctype, fieldname),
                             JsonDumps(FirstNamed(got.value.fields, fieldname)), t,
                             metadata_cache_ttl)]

FieldMetadata(rc, doctype, fieldname, t) ==
    IF CacheLive(rc, FieldKey(doctype, fieldname), t)
    THEN [raised |-> FALSE, value |-> JsonLoads(rc[FieldKey(doctype, fieldname)].payload),
          cache |-> rc]
    ELSE FieldMetadataFrom(DoctypeMetadata(rc, doctype, t), doctype, fieldname, t)

MetaRest ==
    <<now, meta, ucp_table, pref_cache, backup_table, sync_cache, realtime, next_name,
      memory_cache, cache_stats, th, supplier_calls, syncVars, auxVars>>

MetaReturn(op, doctype, fieldname, got) ==
    /\ redis_cache' = got.cache
    /\ pret' = [NoRet EXCEPT !.op = op, !.doctype_name = doctype, !.fieldname = fieldname,
                             !.ok = ~got.raised, !.raised = got.raised, !.value = got.value]
    /\ ops' = ops + 1
    /\ UNCHANGED MetaRest

\* getRecordTypeSchema(recordType)
GetDoctypeMetadata(doctype) ==
    MetaReturn("get_doctype_metadata", doctype, "", DoctypeMetadata(redis_cache, doctype, now))

\* getFieldSchema(recordType, field)
GetFieldMetadata(doctype, fieldname) ==
    MetaReturn("get_field_metadata", doctype, fieldname,
               FieldMetadata(redis_cache, doctype, fieldname, now))

\* invalidate(recordType): the key of the record type is deleted, no field key
InvalidateDoctypeCache(doctype) ==
    /\ redis_cache' = [redis_cache EXCEPT ![DoctypeKey(doctype)] = NoRedis]
    /\ pret' = [NoRet EXCEPT !.op = "invalidate_doctype_cache", !.doctype_name = doctype,
                             !.ok = TRUE]
    /\ ops' = ops + 1
    /\ UNCHANGED MetaRest

\* the schema of a record type is changed; this is no call of the service
AlterDoctype(doctype, fields) ==
    /\ fields # meta[doctype]
    /\ meta' = [meta EXCEPT ![doctype] = fields]
    /\ pret' = NoRet
    /\ UNCHANGED <<now, ucp_table, pref_cache, backup_table, sync_cache, realtime, next_name,
                   cacheVars, syncVars, auxVars>>

(***************************************************************************)
(* SpecMetadata: every schema of up to MaxMetaFields fields, one of which  *)
(* may be named like a standard field; schema reads, field reads,          *)
(* invalidation, schema changes and the clock                              *)
(***************************************************************************)
MaxMetaFields == 2
MetaOps == 3
MetaFieldNames == {"amount", "owner"}
StandardFieldNames == {"name", "owner", "creation", "modified", "modified_by"}
MetaSchemas ==
    UNION {{s \in [1..n -> [fieldname : MetaFieldNames, label : {None, "Total"},
                            fieldtype : {"Data"}, hidden : {0}, in_list_view : {1},
                            idx : 1..n]] :
               /\ \A i \in 1..n : s[i].idx = i
               /\ \A i, j \in 1..n : i # j => s[i].fieldname # s[j].fieldname} :
           n \in 0..MaxMetaFields}
MetaLookups == MetaFieldNames \cup {"modified"}

MetaInit ==
    /\ now = 0
    /\ memory_cache = [i \in Instances |-> <<>>]
    /\ redis_cache = [k \in FullKeys \cup {DoctypeKey(d) : d \in Doctypes}
                             \cup {FieldKey(d, f) : d \in Doctypes, f \in MetaLookups} |->
                         NoRedis]
    /\ cache_stats = [i \in Instances |-> ZeroStats]
    /\ th = [t \in Threads |-> IdleThread]
    /\ supplier_calls = [k \in CacheKeys |-> 0]
    /\ ops = 0
    /\ meta \in [Doctypes -> MetaSchemas]
    /\ PrefIdle
    /\ AuxIdle

MetaNext ==
    \/ \E d \in Doctypes : ops < MetaOps /\ GetDoctypeMetadata(d)
    \/ \E d \in Doctypes, f \in MetaLookups : ops < MetaOps /\ GetFieldMetadata(d, f)
    \/ \E d \in Doctypes : ops < MetaOps /\ InvalidateDoctypeCache(d)
    \/ \E d \in Doctypes, s \in MetaSchemas : AlterDoctype(d, s)
    \/ now = 0 /\ Sleep

SpecMetadata == MetaInit /\ [][MetaNext]_vars

\* the record type's schema was read and the step reads it again
IsRepeatedSchemaRead ==
    /\ pret.op = "get_doctype_metadata" /\ pret.ok
    /\ pret'.op = "get_doctype_metadata" /\ pret'.ok
    /\ pret'.doctype_name = pret.doctype_name
    /\ ops' = ops + 1

\* C26: the field list returned by getRecordTypeSchema holds each of the five
\* standard field names exactly once, whatever fields the live schema
\* declares, and a repeated call returns the same list.
C26_StandardFieldsExactlyOnce ==
    [][/\ (pret'.op = "get_doctype_metadata" /\ pret'.ok) =>
            \A std \in StandardFieldNames :
               Cardinality({n \in DOMAIN pret'.value.fields :
                               pret'.value.fields[n].fieldname = std}) = 1
       /\ IsRepeatedSchemaRead => pret'.value.fields = pret.value.fields]_vars

\* the step is the first read after invalidate(recordType)
IsReadAfterInvalidate(op) ==
    /\ pret.op = "invalidate_doctype_cache"
    /\ pret'.op = op
    /\ pret'.doctype_name = pret.doctype_name
    /\ ops' = ops + 1

\* C27: the first getRecordTypeSchema and the first getFieldSchema after
\* invalidate(recordType) return what the live schema gives: the schema read
\* returns the live schema, the field read the live field (it fails when the
\* live schema has no such field).
C27_ReadsAfterInvalidateAreLive ==
    [][/\ IsReadAfterInvalidate("get_doctype_metadata") =>
            pret'.ok /\ pret'.value = FetchDoctypeMetadata(pret'.doctype_name)
       /\ IsReadAfterInvalidate("get_field_metadata") =>
            LET live == FetchDoctypeMetadata(pret'.doctype_name).fields
            IN  IF HasField(live, pret'.fieldname)
                THEN pret'.ok /\ pret'.value = FirstNamed(live, pret'.fieldname)
                ELSE pret'.raised]_vars

(***************************************************************************)
(* VirtualScrollService: the row window of get_virtual_data and the        *)
(* preload ranges.  Positions and heights are whole pixels, indexes rows;  *)
(* item_height 0 stands for a call that passes none.  A ratio a / b is     *)
(* compared with a number of tenths by cross multiplication.               *)
(***************************************************************************)
default_buffer_size == 50
default_item_height == 40
preload_threshold_tenths == 8
fast_threshold_tenths == 9

\* a // b and math.ceil(a / b) for b > 0
FloorDiv(a, b) == a \div b
CeilDiv(a, b) == -((-a) \div b)

\* a / b > tenths / 10
RatioAbove(a, b, tenths) ==
    IF b > 0 THEN 10 * a > tenths * b
    ELSE IF b < 0 THEN 10 * a < tenths * b
    ELSE FALSE

\* the second range of _calculate_preload_requirements
FarRange(visible_range, next_end, total_count) ==
    IF next_end < total_count
    THEN <<<<next_end, Min(next_end + visible_range, total_count)>>>>
    ELSE <<>>

\* the ranges once buffer_usage is above preload_threshold
PreloadRanges(visible_range, usage, buffer_end, next_end, total_count) ==
    (IF buffer_end < total_count THEN <<<<buffer_end, next_end>>>> ELSE <<>>)
    \o (IF RatioAbove(usage[1], usage[2], fast_threshold_tenths)
        THEN FarRange(visible_range, next_end, total_count)
        ELSE <<>>)

\* _calculate_preload_requirements; buffer_usage is the pair (numerator,
\* denominator), 0 / 1 when the buffer is empty
PreloadFor(visible_range, usage, buffer_end, total_count) ==
    IF RatioAbove(usage[1], usage[2], preload_threshold_tenths)
    THEN PreloadRanges(visible_range, usage, buffer_end,
                       Min(buffer_end + visible_range + default_buffer_size, total_count),
                       total_count)
    ELSE <<>>

PreloadInfo(ranges, usage) ==
    [ranges |-> ranges, buffer_usage |-> usage, should_preload |-> Len(ranges) > 0]

CalculatePreloadRequirements(visible_start, visible_end, buffer_start, buffer_end, total_count) ==
    PreloadInfo(PreloadFor(visible_end - visible_start,
                           IF buffer_end > buffer_start
                           THEN <<visible_end - buffer_start, buffer_end - buffer_start>>
                           ELSE <<0, 1>>,
                           buffer_end, total_count),
                IF buffer_end > buffer_start
                THEN <<visible_end - buffer_start, buffer_end - buffer_start>>
                ELSE <<0, 1>>)

\* the buffer around the visible rows
BufferedWindow(start_index, end_index, total_count, item_height) ==
    [visible_start |-> start_index, visible_end |-> end_index,
     buffer_start |-> Max(0, start_index - default_buffer_size),
     buffer_end |-> Min(end_index + default_buffer_size, total_count),
     item_height |-> item_height, total_count |-> total_count]

\* the visible rows of get_virtual_data
VisibleWindow(viewport_start, viewport_end, total_height, item_height, total_count) ==
    BufferedWindow(Max(0, FloorDiv(viewport_start, item_height)),
                   Min(CeilDiv(viewport_end, item_height), FloorDiv(total_height, item_height)),
                   total_count, item_height)

WithPreload(w) ==
    w @@
    [preload_info |-> CalculatePreloadRequirements(w.visible_start, w.visible_end,
                                                   w.buffer_start, w.buffer_end,
                                                   w.total_count)]

\* get_virtual_data: the window and the preload information it returns
GetVirtualData(in) ==
    /\ pret.op = "input"
    /\ pret' = [pret EXCEPT
                  !.op = "get_virtual_data", !.ok = TRUE,
                  !.value = WithPreload(VisibleWindow(
                                in.viewport_start, in.viewport_end, in.total_height,
                                IF in.item_height = 0 THEN default_item_height
                                ELSE in.item_height,
                                in.total_count))]
    /\ UNCHANGED <<now, meta, ucp_table, pref_cache, backup_table, sync_cache, realtime,
                   next_name, cacheVars, syncVars, auxVars>>

(***************************************************************************)
(* SpecScroll: get_virtual_data on every viewport, total height, item      *)
(* height and row count of the grid below                                  *)
(***************************************************************************)
MaxScrollSteps == 5
ScrollStride == default_buffer_size * default_item_height
ScrollPixels == {k * ScrollStride : k \in 0..MaxScrollSteps}
ScrollCounts == {k * default_buffer_size * 6 : k \in 0..MaxScrollSteps}
ScrollInputs ==
    {in \in [viewport_start : ScrollPixels, viewport_end : ScrollPixels,
             total_height : ScrollPixels,
             item_height : {0, default_item_height \div 2, default_item_height},
             total_count : ScrollCounts] : in.viewport_start <= in.viewport_end}

ScrollInit ==
    /\ now = 0
    /\ memory_cache = [i \in Instances |-> <<>>]
    /\ redis_cache = [k \in FullKeys |-> NoRedis]
    /\ cache_stats = [i \in Instances |-> ZeroStats]
    /\ th = [t \in Threads |-> IdleThread]
    /\ supplier_calls = [k \in CacheKeys |-> 0]
    /\ ops = 0
    /\ meta = [d \in Doctypes |-> InvoiceFields]
    /\ ucp_table = <<>>
    /\ pref_cache = [k \in Users \X Doctypes |-> NoCache]
    /\ backup_table = <<>>
    /\ sync_cache = [k \in Users \X Doctypes |-> NoCache]
    /\ realtime = {}
    /\ pret \in {[NoRet EXCEPT !.op = "input", !.input = in] : in \in ScrollInputs}
    /\ next_name = 1
    /\ backup_log = <<>>
    /\ hash_docs = <<>>
    /\ hash_out = <<>>
    /\ AuxIdle

ScrollNext == GetVirtualData(pret.input)

SpecScroll == ScrollInit /\ [][ScrollNext]_vars

\* C28: whatever the viewport, the total height, the item height (above 0) and
\* the row count, get_virtual_data returns 0 <= buffer_start <= buffer_end <=
\* total_count.
C28_RowWindowIsClamped ==
    (pret.op = "get_virtual_data" /\ pret.input.item_height > 0) =>
        /\ 0 <= pret.value.buffer_start
        /\ pret.value.buffer_start <= pret.value.buffer_end
        /\ pret.value.buffer_end <= pret.value.total_count

\* C29: should_preload is true exactly when (visible_end - buffer_start) /
\* (buffer_end - buffer_start) is above 0.8 and buffer_end is below
\* total_count; every preload range [s, e] has buffer_end <= s <= e <=
\* total_count; the first range starts at buffer_end; a second range is
\* there only when the ratio is above 0.9 and starts where the first ends.
C29_PreloadRanges ==
    pret.op = "get_virtual_data" =>
        LET w == pret.value
            ranges == w.preload_info.ranges
            a == w.visible_end - w.buffer_start
            b == w.buffer_end - w.buffer_start
        IN  /\ w.preload_info.should_preload <=>
                  (RatioAbove(a, b, 8) /\ w.buffer_end < w.total_count)
            /\ \A n \in 1..Len(ranges) :
                  /\ w.buffer_end <= ranges[n][1]
                  /\ ranges[n][1] <= ranges[n][2]
                  /\ ranges[n][2] <= w.total_count
            /\ Len(ranges) >= 1 => ranges[1][1] = w.buffer_end
            /\ Len(ranges) <= 2
            /\ Len(ranges) = 2 => RatioAbove(a, b, 9) /\ ranges[2][1] = ranges[1][2]

(***************************************************************************)
(* get_scroll_metrics (rows) and get_column_metrics (columns).  A sample   *)
(* is a position and a timestamp (the key "left" of a column sample is     *)
(* position here); a velocity and a score are fractions, kept as the pair  *)
(* (numerator, denominator).                                               *)
(***************************************************************************)
recent_samples == 5
scroll_high == 1000
scroll_medium == 500
column_high == 500
column_medium == 200
predicted_rows == 50
predicted_columns == 5

RowAxis ==
    [towards |-> "down", back |-> "up", high |-> scroll_high, medium |-> scroll_medium,
     unit |-> default_item_height, fallback |-> predicted_rows, extra |-> 0]
ColumnAxis ==
    [towards |-> "right", back |-> "left", high |-> column_high, medium |-> column_medium,
     unit |-> default_column_width, fallback |-> 0, extra |-> predicted_columns]

Abs(n) == IF n < 0 THEN -n ELSE n

\* scroll_history[-5:]
RecentPositions(scroll_history) ==
    IF Len(scroll_history) > recent_samples
    THEN SubSeq(scroll_history, Len(scroll_history) - recent_samples + 1, Len(scroll_history))
    ELSE scroll_history

\* one turn of the loop: a pair of samples with no time between them is skipped
MetricsStep(acc, distance, time_diff, axis) ==
    IF time_diff > 0
    THEN [total_distance |-> acc.total_distance + Abs(distance),
          total_time |-> acc.total_time + time_diff,
          direction_changes |->
              IF /\ acc.last_direction # None
                 /\ acc.last_direction # (IF distance > 0 THEN axis.towards ELSE axis.back)
              THEN acc.direction_changes + 1
              ELSE acc.direction_changes,
          last_direction |-> IF distance > 0 THEN axis.towards ELSE axis.back]
    ELSE acc

RECURSIVE MetricsLoop(_, _, _, _)
MetricsLoop(acc, recent_positions, i, axis) ==
    IF i > Len(recent_positions) THEN acc
    ELSE MetricsLoop(MetricsStep(acc,
                                 recent_positions[i].position - recent_positions[i - 1].position,
                                 recent_positions[i].timestamp - recent_positions[i - 1].timestamp,
                                 axis),
                     recent_positions, i + 1, axis)

\* _predict_scroll_ranges and _predict_column_ranges, for the velocity num / den:
\* the range starts where the scroll will be in 2 seconds
PredictRanges(current_position, num, den, direction, axis) ==
    IF num > 0 /\ direction # "none"
    THEN LET predicted_start ==
                 IF direction = axis.towards
                 THEN FloorDiv(current_position * den + 2 * num, axis.unit * den)
                 ELSE FloorDiv(Max(0, current_position * den - 2 * num), axis.unit * den)
             predicted_items == FloorDiv(2 * num, axis.unit * den)
         IN  <<<<predicted_start,
                 predicted_start
                 + (IF axis.fallback > 0 /\ predicted_items = 0
                    THEN axis.fallback
                    ELSE predicted_items + axis.extra)>>>>
    ELSE <<>>

PreloadPriority(num, den, axis) ==
    IF num > axis.high * den THEN "high"
    ELSE IF num > axis.medium * den THEN "medium"
    ELSE "low"

MetricsOf(acc, recent_positions, num, den, direction, axis) ==
    [scroll_velocity |-> <<num, den>>,
     scroll_direction |-> direction,
     direction_changes |-> acc.direction_changes,
     predicted_ranges |-> PredictRanges(recent_positions[Len(recent_positions)].position,
                                        num, den, direction, axis),
     preload_priority |-> PreloadPriority(num, den, axis),
     stability_score |-> <<Max(0, Len(recent_positions) - acc.direction_changes),
                           Len(recent_positions)>>]

MetricsFrom(acc, recent_positions, axis) ==
    MetricsOf(acc, recent_positions,
              IF acc.total_time > 0 THEN acc.total_distance ELSE 0,
              IF acc.total_time > 0 THEN acc.total_time ELSE 1,
              IF acc.last_direction # None THEN acc.last_direction ELSE "none",
              axis)

\* the data of get_scroll_metrics / get_column_metrics
ScrollMetrics(scroll_history, axis) ==
    IF Len(scroll_history) < 2
    THEN [scroll_velocity |-> <<0, 1>>, scroll_direction |-> "none",
          predicted_ranges |-> <<>>, preload_priority |-> "low"]
    ELSE MetricsFrom(MetricsLoop([total_distance |-> 0, total_time |-> 0,
                                  direction_changes |-> 0, last_direction |-> None],
                                 RecentPositions(scroll_history), 2, axis),
                     RecentPositions(scroll_history), axis)

MetricsReturn(op, axis) ==
    /\ pret.op = "input"
    /\ pret.input.axis = axis.towards
    /\ pret' = [pret EXCEPT !.op = op, !.ok = TRUE,
                            !.value = ScrollMetrics(pret.input.scroll_history, axis)]
    /\ UNCHANGED <<now, meta, ucp_table, pref_cache, backup_table, sync_cache, realtime,
                   next_name, cacheVars, syncVars, auxVars>>

GetScrollMetrics == MetricsReturn("get_scroll_metrics", RowAxis)
GetColumnMetrics == MetricsReturn("get_column_metrics", ColumnAxis)

(***************************************************************************)
(* SpecMetrics: the metrics of every scroll history of up to MaxSamples    *)
(* samples over two positions, taken zero or one unit of time apart        *)
(***************************************************************************)
MaxSamples == 6
SamplePositions == {0, 2000}
SampleSteps == {0, 1}

RECURSIVE TimestampAt(_, _)
TimestampAt(steps, i) == IF i = 0 THEN 0 ELSE steps[i] + TimestampAt(steps, i - 1)

\* the samples of a history are in the order they were taken: each is taken
\* a step of time after the one before it
ScrollHistories ==
    UNION {{[i \in 1..n |-> [position |-> positions[i], timestamp |-> TimestampAt(steps, i)]] :
               positions \in [1..n -> SamplePositions], steps \in [1..n -> SampleSteps]} :
           n \in 0..MaxSamples}

MetricsInit ==
    /\ now = 0
    /\ memory_cache = [i \in Instances |-> <<>>]
    /\ redis_cache = [k \in FullKeys |-> NoRedis]
    /\ cache_stats = [i \in Instances |-> ZeroStats]
    /\ th = [t \in Threads |-> IdleThread]
    /\ supplier_calls = [k \in CacheKeys |-> 0]
    /\ ops = 0
    /\ meta = [d \in Doctypes |-> InvoiceFields]
    /\ ucp_table = <<>>
    /\ pref_cache = [k \in Users \X Doctypes |-> NoCache]
    /\ backup_table = <<>>
    /\ sync_cache = [k \in Users \X Doctypes |-> NoCache]
    /\ realtime = {}
    /\ pret \in {[NoRet EXCEPT !.op = "input",
                               !.input = [scroll_history |-> h, axis |-> a]] :
                     h \in ScrollHistories, a \in {RowAxis.towards, ColumnAxis.towards}}
    /\ next_name = 1
    /\ backup_log = <<>>
    /\ hash_docs = <<>>
    /\ hash_out = <<>>
    /\ AuxIdle

MetricsNext == GetScrollMetrics \/ GetColumnMetrics

SpecMetrics == MetricsInit /\ [][MetricsNext]_vars

\* the deltas of position and of time between successive samples
PositionDeltas(samples) ==
    [i \in 1..(Len(samples) - 1) |-> samples[i + 1].position - samples[i].position]
TimeDeltas(samples) ==
    [i \in 1..(Len(samples) - 1) |-> samples[i + 1].timestamp - samples[i].timestamp]

RECURSIVE SumAbs(_)
SumAbs(seq) == IF seq = <<>> THEN 0 ELSE Abs(Head(seq)) + SumAbs(Tail(seq))
RECURSIVE SumOf(_)
SumOf(seq) == IF seq = <<>> THEN 0 ELSE Head(seq) + SumOf(Tail(seq))
Sign(n) == IF n > 0 THEN 1 ELSE IF n < 0 THEN -1 ELSE 0

\* C30: with fewer than 2 samples the velocity is 0, the direction none, no
\* range is predicted and the priority is low.  Otherwise, over the last 5
\* samples, the velocity is the sum of the absolute position deltas divided
\* by the sum of the elapsed times, the direction is the sign of the most
\* recent delta, the reversals are the sign changes between successive
\* deltas, and the stability is 1 - reversals / sample count, within [0, 1].
C30_ScrollMetrics ==
    pret.op \in {"get_scroll_metrics", "get_column_metrics"} =>
        LET m == pret.value
            axis == IF pret.op = "get_scroll_metrics" THEN RowAxis ELSE ColumnAxis
            samples == RecentPositions(pret.input.scroll_history)
            deltas == PositionDeltas(samples)
            last == deltas[Len(deltas)]
        IN  IF Len(pret.input.scroll_history) < 2
            THEN /\ m.scroll_velocity[1] = 0
                 /\ m.scroll_direction = "none"
                 /\ m.predicted_ranges = <<>>
                 /\ m.preload_priority = "low"
            ELSE /\ SumOf(TimeDeltas(samples)) > 0 =>
                       m.scroll_velocity[1] * SumOf(TimeDeltas(samples)) =
                          SumAbs(deltas) * m.scroll_velocity[2]
                 /\ m.scroll_direction =
                       (IF last > 0 THEN axis.towards
                        ELSE IF last < 0 THEN axis.back ELSE "none")
                 /\ m.direction_changes =
                       Cardinality({i \in 1..(Len(deltas) - 1) :
                                       Sign(deltas[i]) # Sign(deltas[i + 1])})
                 /\ m.stability_score[1] * Len(samples) =
                       (Len(samples) - m.direction_changes) * m.stability_score[2]
                 /\ 0 <= m.stability_score[1]
                 /\ m.stability_score[1] <= m.stability_score[2]

(***************************************************************************)
(* flush_all: the three steps between which it holds no lock               *)
(***************************************************************************)
\* flush_all, lines 405-406: self.memory_cache.clear() under the lock
FlushClear(t) ==
    /\ th[t].pc = "idle"
    /\ ops' = ops + 1
    /\ memory_cache' = [memory_cache EXCEPT ![InstOf(t)] = <<>>]
    /\ th' = [th EXCEPT ![t] = [IdleThread EXCEPT !.op = "flush_all", !.pc = "flush_pattern"]]
    /\ UNCHANGED <<now, prefVars, redis_cache, cache_stats, supplier_calls>>

\* flush_all, line 410: self.delete_pattern("*"), which reads and writes tier 1 only
FlushPattern(t) ==
    /\ th[t].pc = "flush_pattern"
    /\ memory_cache' = [memory_cache EXCEPT ![InstOf(t)] = KeepUnmatched(@, FullKey(<<"*">>))]
    /\ th' = [th EXCEPT ![t].pc = "flush_stats"]
    /\ UNCHANGED <<now, prefVars, redis_cache, cache_stats, supplier_calls, ops>>

\* flush_all, lines 413-415: self.clear_stats() and return True
FlushStats(t) ==
    /\ th[t].pc = "flush_stats"
    /\ cache_stats' = [cache_stats EXCEPT ![InstOf(t)] = ZeroStats]
    /\ th' = [th EXCEPT ![t].pc = "idle", ![t].ret = "True"]
    /\ UNCHANGED <<now, prefVars, memory_cache, redis_cache, supplier_calls, ops>>

(***************************************************************************)
(* SpecFlush: one process sets and gets keys, then flushes its cache and   *)
(* gets them again; the calls run one after the other and the clock ticks  *)
(* between them.  FlushCaller makes the set and get calls, Flusher the     *)
(* flush, so that th[Flusher] tells whether the cache has been flushed.    *)
(***************************************************************************)
FlushOps == 4
FlushCaller == "t1"
Flusher == "t2"
FlushKeys == {<<"a">>, <<"b">>}
Flushed == th[Flusher].op = "flush_all" /\ th[Flusher].pc = "idle"

FlushNext ==
    \/ \E k \in FlushKeys, v \in Values :
           AllIdle /\ ops < FlushOps /\ ~Flushed /\ SetL1(FlushCaller, k, v, 0)
    \/ SetL2(FlushCaller)
    \/ \E k \in FlushKeys : AllIdle /\ ops < FlushOps /\ GetL1(FlushCaller, "get", k, None)
    \/ GetL2(FlushCaller)
    \/ GetFill(FlushCaller)
    \/ AllIdle /\ ops < FlushOps /\ ~Flushed /\ FlushClear(Flusher)
    \/ FlushPattern(Flusher)
    \/ FlushStats(Flusher)
    \/ AllIdle /\ Tick

SpecFlush == CacheInit /\ [][FlushNext]_vars

\* C31: when flush_all returns, tier 1 is empty and the four counters are
\* zero; and a get made after flush_all returned, with no set since, returns
\* absent.
C31_FlushAllFlushesEverything ==
    [][/\ th[Flusher].pc = "flush_stats" /\ th'[Flusher].pc = "idle" =>
            /\ memory_cache'[InstOf(Flusher)] = <<>>
            /\ cache_stats'[InstOf(Flusher)] = ZeroStats
       /\ Flushed /\ IsGetReturn(FlushCaller) => th'[FlushCaller].ret = None]_vars

(***************************************************************************)
(* The cache keys of a DocType.  A DocType name is a sequence of           *)
(* characters, the fixed parts of a key are one token each.                *)
(***************************************************************************)
ColumnsKey(doctype, user) == <<"columns:">> \o doctype \o <<":", user>>
MetadataDoctypeKey(doctype) == <<"metadata:doctype:">> \o doctype
MetadataFieldKey(doctype, fieldname) == <<"metadata:field:">> \o doctype \o <<":", fieldname>>
StatsKey(doctype, stat) == <<"stats:">> \o doctype \o <<":", stat>>

\* ColumnService.get_user_column_config, line 25: the key it hands to
\* CacheService already carries ColumnService.cache_prefix
ConfigCacheKey(doctype, user) == <<"column_management:columns:">> \o doctype \o <<":", user>>

column_cache_ttl == 3600

\* _fetch_user_column_config, serialized by json.dumps: a string
FetchUserColumnConfig(doctype, user) == "config"

\* get_user_column_config, line 28: self.cache.get(cache_key)
ConfigGet(t, doctype, user) == GetL1(t, "get_user_column_config", ConfigCacheKey(doctype, user), None)

\* get_user_column_config, lines 33-36: nothing cached, so the configuration
\* is fetched and handed to self.cache.set with ColumnService.cache_ttl
ConfigSet(t) ==
    /\ th[t].pc = "config_set"
    /\ SetL1Body(t, "get_user_column_config", th[t].key,
                 FetchUserColumnConfig(th[t].key[2], th[t].key[Len(th[t].key)]), column_cache_ttl)
    /\ UNCHANGED <<now, prefVars, redis_cache, cache_stats, supplier_calls, ops>>

\* invalidate_doctype_cache, lines 325-330: patterns_to_clear
PatternsToClear(doctype) ==
    <<ColumnsKey(doctype, "*"), MetadataDoctypeKey(doctype),
      MetadataFieldKey(doctype, "*"), StatsKey(doctype, "*")>>

\* invalidate_doctype_cache: one delete_pattern call after the other, each a
\* critical section of its own; th[t].ttl counts the patterns cleared
InvalidateStep(t, doctype, done) ==
    /\ memory_cache' = [memory_cache EXCEPT ![InstOf(t)] =
           KeepUnmatched(@, FullKey(PatternsToClear(doctype)[done + 1]))]
    /\ th' = [th EXCEPT ![t] = [IdleThread EXCEPT
                  !.op = "invalidate_doctype_cache", !.key = doctype, !.ttl = done + 1,
                  !.pc = IF done + 1 < Len(PatternsToClear(doctype))
                         THEN "invalidate_next" ELSE "idle",
                  !.ret = IF done + 1 < Len(PatternsToClear(doctype)) THEN None ELSE "True"]]

InvalidateDoctype(t, doctype) ==
    /\ th[t].pc = "idle"
    /\ ops' = ops + 1
    /\ InvalidateStep(t, doctype, 0)
    /\ UNCHANGED <<now, prefVars, redis_cache, cache_stats, supplier_calls>>

InvalidateNext(t) ==
    /\ th[t].pc = "invalidate_next"
    /\ InvalidateStep(t, th[t].key, th[t].ttl)
    /\ UNCHANGED <<now, prefVars, redis_cache, cache_stats, supplier_calls, ops>>

(***************************************************************************)
(* SpecDoctype: a process caches entries of two DocTypes, the name of one  *)
(* being the start of the name of the other, and invalidates one of them.  *)
(* The entries are column configurations cached by ColumnService, which a  *)
(* second process reads too, and entries set under the keys                *)
(* invalidate_doctype_cache clears.                                        *)
(***************************************************************************)
DoctypeOps == 4
DoctypeThread == "t1"
\* the requests that read column configurations: one of the process that
\* invalidates and one of a second process
DoctypeReaders == {DoctypeThread, "t3"}
DoctypeNames == {<<"a">>, <<"a", "b">>}
DoctypeUser == "u1"

\* the keys under which entries of the DocType are cached
WrittenFor(doctype) ==
    {ConfigCacheKey(doctype, DoctypeUser), ColumnsKey(doctype, DoctypeUser),
     MetadataDoctypeKey(doctype), MetadataFieldKey(doctype, "f"), StatsKey(doctype, "count")}
SetKeys(doctype) == WrittenFor(doctype) \ {ConfigCacheKey(doctype, DoctypeUser)}

DoctypeInit ==
    /\ now = 0
    /\ memory_cache = [i \in Instances |-> <<>>]
    /\ redis_cache = [k \in FullKeys \cup {FullKey(k) : k \in UNION {WrittenFor(d) : d \in DoctypeNames}}
                         |-> NoRedis]
    /\ cache_stats = [i \in Instances |-> ZeroStats]
    /\ th = [t \in Threads |-> IdleThread]
    /\ supplier_calls = [k \in CacheKeys |-> 0]
    /\ ops = 0
    /\ meta = [d \in Doctypes |-> InvoiceFields]
    /\ PrefIdle
    /\ AuxIdle

DoctypeNext ==
    \/ \E d \in DoctypeNames : \E k \in SetKeys(d) :
           AllIdle /\ ops < DoctypeOps /\ SetL1(DoctypeThread, k, "v1", 0)
    \/ \E t \in DoctypeReaders, d \in DoctypeNames :
           AllIdle /\ ops < DoctypeOps /\ ConfigGet(t, d, DoctypeUser)
    \/ \E t \in DoctypeReaders : GetL2(t)
    \/ \E t \in DoctypeReaders : GetFill(t)
    \/ \E t \in DoctypeReaders : ConfigSet(t)
    \/ \E t \in DoctypeReaders : SetL2(t)
    \/ \E d \in DoctypeNames : AllIdle /\ ops < DoctypeOps /\ InvalidateDoctype(DoctypeThread, d)
    \/ InvalidateNext(DoctypeThread)

SpecDoctype == DoctypeInit /\ [][DoctypeNext]_vars

\* the tier-1 entries cached for the DocType, in their order
EntriesFor(mc, doctype) == SelectSeq(mc, LAMBDA e : e.key \in {FullKey(k) : k \in WrittenFor(doctype)})

\* C32: when invalidate_doctype_cache(doctype) returns, tier 1 holds no entry
\* cached for that DocType, and no step of it changes a tier-1 entry cached
\* for another DocType, one whose name starts with the same characters
\* included.
C32_InvalidatesThatDoctypeOnly ==
    [][th'[DoctypeThread].op = "invalidate_doctype_cache" /\ th'[DoctypeThread] # th[DoctypeThread] =>
          /\ th'[DoctypeThread].pc = "idle" =>
                EntriesFor(memory_cache'[InstOf(DoctypeThread)], th'[DoctypeThread].key) = <<>>
          /\ \A d \in DoctypeNames \ {th'[DoctypeThread].key} :
                EntriesFor(memory_cache'[InstOf(DoctypeThread)], d) =
                   EntriesFor(memory_cache[InstOf(DoctypeThread)], d)]_vars

(***************************************************************************)
(* The viewport caches of VirtualScrollService (rows) and                  *)
(* ColumnVirtualizationService (columns): the part of get_virtual_data and *)
(* get_virtual_columns that reads or fills the cache for the range the     *)
(* window came to, and the invalidation.  The fields of a key are one      *)
(* token each.                                                             *)
(***************************************************************************)
virtual_data_expire == 300
virtual_columns_expire == 600

\* _generate_cache_key without filters and sort: the range is start_idx:end_idx
GenerateCacheKey(doctype, range, user) ==
    <<"virtual_scroll:", doctype, ":", "", ":", "default", ":", range, ":", user>>
\* _generate_column_cache_key: the range is the md5 of the column indices
GenerateColumnCacheKey(doctype, range, user) == <<"column_virtual:", doctype, ":", range, ":", user>>

ViewportKey(op, doctype, range, user) ==
    IF op = "get_virtual_data"
    THEN GenerateCacheKey(doctype, range, user)
    ELSE GenerateColumnCacheKey(doctype, range, user)

\* cache_pattern of invalidate_virtual_cache and invalidate_column_cache
ViewportPattern(op, doctype, user) ==
    <<IF op = "get_virtual_data" THEN "virtual_scroll:" ELSE "column_virtual:", doctype, ":", "*">>
    \o (IF user # None THEN <<":", user, ":", "*">> ELSE <<>>)

\* _fetch_data_range and _prepare_column_data: the items of the range
FetchViewport(key) == "items"

\* cached_data = self.cache_service.get(cache_key)
ViewportGet(t, op, doctype, range, user) == GetL1(t, op, ViewportKey(op, doctype, range, user), None)

\* nothing cached: fetch and self.cache_service.set(cache_key, data, expire=...)
ViewportSet(t) ==
    /\ th[t].pc = "virtual_set"
    /\ SetL1Body(t, th[t].op, th[t].key, FetchViewport(th[t].key),
                 IF th[t].op = "get_virtual_data"
                 THEN virtual_data_expire ELSE virtual_columns_expire)
    /\ UNCHANGED <<now, prefVars, redis_cache, cache_stats, supplier_calls, ops>>

\* invalidate_virtual_cache and invalidate_column_cache: one delete_pattern
InvalidateViewport(t, op, doctype, user) == DeletePattern(t, ViewportPattern(op, doctype, user))

(***************************************************************************)
(* SpecViewport: a process serves viewports of rows and columns of one     *)
(* DocType to two users, then invalidates one of the two caches, for one   *)
(* user or for all, and serves one more viewport of that kind.  ViewServer *)
(* makes the calls before the invalidation, Invalidator the invalidation   *)
(* and the call after it.                                                  *)
(***************************************************************************)
ViewOps == 4
ViewServer == "t1"
Invalidator == "t2"
ViewDoctype == "Invoice"
ViewRanges == {"0:50", "50:100"}
ViewCalls == {"get_virtual_data", "get_virtual_columns"}
ViewKeys == {ViewportKey(op, ViewDoctype, r, u) : op \in ViewCalls, r \in ViewRanges, u \in Users}

ViewInit ==
    /\ now = 0
    /\ memory_cache = [i \in Instances |-> <<>>]
    /\ redis_cache = [k \in FullKeys \cup {FullKey(k) : k \in ViewKeys} |-> NoRedis]
    /\ cache_stats = [i \in Instances |-> ZeroStats]
    /\ th = [t \in Threads |-> IdleThread]
    /\ supplier_calls = [k \in CacheKeys |-> 0]
    /\ ops = 0
    /\ meta = [d \in Doctypes |-> InvoiceFields]
    /\ PrefIdle
    /\ AuxIdle

ViewNext ==
    \/ \E op \in ViewCalls, r \in ViewRanges, u \in Users :
           /\ AllIdle /\ ops < ViewOps /\ th[Invalidator].op = "none"
           /\ ViewportGet(ViewServer, op, ViewDoctype, r, u)
    \/ \E op \in ViewCalls, u \in Users \cup {None} :
           /\ AllIdle /\ ops < ViewOps /\ th[Invalidator].op = "none"
           /\ InvalidateViewport(Invalidator, op, ViewDoctype, u)
    \/ \E op \in ViewCalls, r \in ViewRanges, u \in Users :
           /\ AllIdle /\ ops < ViewOps
           /\ th[Invalidator].op = "delete_pattern"
           /\ th[Invalidator].key \in {ViewportPattern(op, ViewDoctype, u),
                                       ViewportPattern(op, ViewDoctype, None)}
           /\ ViewportGet(Invalidator, op, ViewDoctype, r, u)
    \/ \E t \in {ViewServer, Invalidator} : GetL2(t)
    \/ \E t \in {ViewServer, Invalidator} : GetFill(t)
    \/ \E t \in {ViewServer, Invalidator} : ViewportSet(t)
    \/ \E t \in {ViewServer, Invalidator} : SetL2(t)
    \/ AllIdle /\ Tick

SpecViewport == ViewInit /\ [][ViewNext]_vars

\* C33: the first get_virtual_data or get_virtual_columns after the cache of
\* its kind was invalidated for its DocType, for its user or for all users,
\* returns no cached items: it neither hits tier 1 nor takes the items from
\* tier 2, but fetches them.
C33_InvalidatedViewportIsFetchedAgain ==
    [][/\ th[Invalidator].pc = "idle" /\ th'[Invalidator].op \in ViewCalls
          /\ th'[Invalidator] # th[Invalidator] => th'[Invalidator].pc = "get_l2"
       /\ th[Invalidator].pc = "get_l2" /\ th'[Invalidator].pc # "get_l2"
          => th'[Invalidator].pc = "virtual_set"]_vars

(***************************************************************************)
(* auto_save_preferences.  The debounce flag is an entry of the cache of   *)
(* PreferenceService under a key of its own.                               *)
(***************************************************************************)
auto_save_delay == 2

DebounceKey(user, doctype_name, preference_type) ==
    <<"auto_save", user, doctype_name, preference_type>>

\* lines 333-349: the flag is set, then the update method of the type runs
\* over the cache that holds the flag; an unknown type is logged
AutoSaveUpdate(tbl, flagged, fields, user, doctype_name, preference_type, updates, t, new_name) ==
    IF preference_type = "columns"
    THEN UpdateColumnPreferences(tbl, flagged, fields, user, doctype_name, updates, t, new_name)
    ELSE IF preference_type \in RequiredSections
    THEN UpdateSectionPreferences(tbl, flagged, fields, user, doctype_name, preference_type,
                                  updates, t, new_name)
    ELSE [ok |-> FALSE, raised |-> FALSE, inserted |-> FALSE, table |-> tbl, cache |-> flagged]

AutoSaveResult(tbl, pc, fields, user, doctype_name, preference_type, updates, t, new_name) ==
    IF CacheLive(pc, DebounceKey(user, doctype_name, preference_type), t)
    THEN [ok |-> FALSE, raised |-> FALSE, inserted |-> FALSE, table |-> tbl, cache |-> pc]
    ELSE AutoSaveUpdate(tbl,
                        CacheSet(pc, DebounceKey(user, doctype_name, preference_type),
                                 JsonDumps("True"), t, auto_save_delay),
                        fields, user, doctype_name, preference_type, updates, t, new_name)

AutoSavePreferences(user, doctype_name, preference_type, updates) ==
    LET saved == AutoSaveResult(ucp_table, pref_cache, meta[doctype_name], user, doctype_name,
                                preference_type, updates, now, next_name)
    IN  /\ ucp_table' = saved.table
        /\ pref_cache' = saved.cache
        /\ next_name' = IF saved.inserted THEN next_name + 1 ELSE next_name
        /\ redis_cache' = IF saved.ok THEN ClearUserCache(redis_cache, doctype_name, user)
                          ELSE redis_cache
        /\ pret' = [NoRet EXCEPT !.op = "auto_save_preferences", !.user = user,
                                 !.doctype_name = doctype_name, !.auto_save = TRUE,
                                 !.section = preference_type, !.patch = updates,
                                 !.ok = saved.ok]
        /\ ops' = ops + 1
        /\ UNCHANGED <<now, meta, backup_table, sync_cache, realtime,
                       memory_cache, cache_stats, th, supplier_calls, syncVars, auxVars>>

(***************************************************************************)
(* SpecAutoSave: auto-saves of two sections by two users, reads, and the   *)
(* clock.                                                                  *)
(***************************************************************************)
AutoSaveOps == 4
AutoSaveTypes == {"columns", "pagination", "layout"}
AutoSaveUpdates(preference_type) ==
    IF preference_type = "columns"
    THEN {[amount |-> [width |-> 160]]}
    ELSE {[page_size |-> 50], [page_size |-> 100]}

AutoSaveInit ==
    /\ now = 0
    /\ memory_cache = [i \in Instances |-> <<>>]
    /\ redis_cache = [k \in FullKeys |-> NoRedis]
    /\ cache_stats = [i \in Instances |-> ZeroStats]
    /\ th = [t \in Threads |-> IdleThread]
    /\ supplier_calls = [k \in CacheKeys |-> 0]
    /\ ops = 0
    /\ meta = [d \in Doctypes |-> InvoiceFields]
    /\ ucp_table = <<>>
    /\ pref_cache = [k \in (Users \X Doctypes)
                           \cup {DebounceKey(u, d, p) : u \in Users, d \in Doctypes,
                                                       p \in AutoSaveTypes} |-> NoCache]
    /\ backup_table = <<>>
    /\ sync_cache = [k \in Users \X Doctypes |-> NoCache]
    /\ realtime = {}
    /\ pret = NoRet
    /\ next_name = 1
    /\ backup_log = <<>>
    /\ hash_docs = <<>>
    /\ hash_out = <<>>
    /\ AuxIdle

AutoSaveNext ==
    \/ \E u \in Users, d \in Doctypes, p \in AutoSaveTypes : \E updates \in AutoSaveUpdates(p) :
           ops < AutoSaveOps /\ AutoSavePreferences(u, d, p, updates)
    \/ \E u \in Users, d \in Doctypes : ops < AutoSaveOps /\ GetPrefs(u, d)
    \/ Tick

SpecAutoSave == AutoSaveInit /\ [][AutoSaveNext]_vars

\* the step is a call of auto_save_preferences
IsAutoSave == ops' = ops + 1 /\ pret'.op = "auto_save_preferences"
\* the debounce flag of the call is live before the step
Debounced == CacheLive(pref_cache, DebounceKey(pret'.user, pret'.doctype_name, pret'.section), now)

\* C34: an auto_save_preferences call made while no debounce flag of its
\* (user, doctype, preference_type) is live applies its update and sets the
\* flag for auto_save_delay seconds; a call made while the flag is live
\* returns False and changes neither the persisted documents nor the cache;
\* and no other step changes the persisted documents.
C34_AutoSaveDebounces ==
    [][/\ IsAutoSave /\ ~Debounced /\ pret'.section \in RequiredSections =>
            /\ pret'.ok
            /\ pref_cache'[DebounceKey(pret'.user, pret'.doctype_name, pret'.section)].expires_at
                 = now + auto_save_delay
            /\ CacheLive(pref_cache', DebounceKey(pret'.user, pret'.doctype_name, pret'.section),
                         now)
            /\ LET stored == GetUserPreference(ucp_table', pret'.user, pret'.doctype_name)
               IN  /\ DOMAIN stored # {}
                   /\ IF pret'.section = "columns"
                      THEN \A f \in DOMAIN pret'.patch : \A k \in DOMAIN pret'.patch[f] :
                              stored.columns.items[f][k] = pret'.patch[f][k]
                      ELSE \A k \in DOMAIN pret'.patch :
                              stored[pret'.section][k] = pret'.patch[k]
       /\ IsAutoSave /\ Debounced =>
            /\ ~pret'.ok
            /\ ucp_table' = ucp_table
            /\ pref_cache' = pref_cache
       /\ ~IsAutoSave => ucp_table' = ucp_table]_vars

(***************************************************************************)
(* The hash stored on a backup.  create_preference_backup hands the        *)
(* document json.dumps(preferences, indent=2) as backup_data and the       *)
(* preference hash as backup_hash; insert runs PreferenceBackup.validate,  *)
(* whose set_metadata stores _generate_backup_hash() in backup_hash.       *)
(***************************************************************************)
\* json.dumps(value, indent=2): the keys in insertion order, an item per line
RECURSIVE Indent(_)
Indent(depth) == IF depth = 0 THEN <<>> ELSE <<"  ">> \o Indent(depth - 1)

RECURSIVE JsonIndentText(_, _)
RECURSIVE JsonIndentItems(_, _)
JsonIndentItems(items, depth) ==
    IF items = <<>> THEN <<>>
    ELSE <<"NL">> \o Indent(depth) \o <<"\"", items[1][1], "\"", ": ">>
         \o JsonIndentText(items[1][2], depth)
         \o (IF Len(items) > 1 THEN <<",">> ELSE <<>>)
         \o JsonIndentItems(Tail(items), depth)

JsonIndentText(value, depth) ==
    CASE value[1] = "int" -> <<value[2]>>
      [] value[1] = "str" -> <<"\"", value[2], "\"">>
      [] value[1] = "dict" ->
            IF value[2] = <<>> THEN <<"{}">>
            ELSE <<"{">> \o JsonIndentItems(value[2], depth + 1)
                 \o <<"NL">> \o Indent(depth) \o <<"}">>

\* _generate_backup_hash: backup_data is a str, so data_str = str(self.backup_data)
GenerateBackupHash(backup_data) == Md5(backup_data)

\* validate_backup_data: every record type holds a dict with the five sections
ValidateBackupPayload(preferences) ==
    \A n \in 1..Len(preferences) :
        /\ preferences[n][2][1] = "dict"
        /\ RequiredSections \subseteq
              {preferences[n][2][2][m][1] : m \in 1..Len(preferences[n][2][2])}

\* the backup_hash of the inserted document: the one of line 113 is
\* overwritten by set_metadata
StoredBackupHash(preferences) ==
    GenerateBackupHash(JsonIndentText(<<"dict", preferences>>, 0))

\* create_preference_backup for a payload, as far as the hash goes
CreateBackupHash(preferences) ==
    /\ ValidateBackupPayload(preferences)
    /\ hash_docs' = IF Len(hash_docs) < 2 THEN Append(hash_docs, preferences)
                    ELSE <<hash_docs[2], preferences>>
    /\ hash_out' = IF Len(hash_out) < 2
                   THEN Append(hash_out, StoredBackupHash(preferences))
                   ELSE <<hash_out[2], StoredBackupHash(preferences)>>
    /\ UNCHANGED <<now, cacheVars, meta, ucp_table, pref_cache, backup_table, sync_cache,
                   realtime, pret, next_name, backup_log, auxVars>>

(***************************************************************************)
(* SpecBackupHash: backups of payloads that hold no record type or the     *)
(* document of one, its sections in several orders.                        *)
(***************************************************************************)
MovedSections == 3
SectionOrder == <<"columns", "filters", "pagination", "sorting", "view_settings">>
\* the orders of the sections: the first MovedSections of them permuted
SectionOrders ==
    {o \in [1..Len(SectionOrder) -> RequiredSections] :
        /\ \A i, j \in 1..Len(SectionOrder) : i # j => o[i] # o[j]
        /\ \A i \in (MovedSections + 1)..Len(SectionOrder) : o[i] = SectionOrder[i]}
BackupDocs ==
    {[n \in 1..Len(SectionOrder) |->
         <<o[n], IF o[n] = "pagination" THEN v ELSE <<"dict", <<>> >> >>] :
       o \in SectionOrders, v \in HashLeaves}
BackupPayloads == {<<>>} \cup {<< <<"Invoice", <<"dict", d>> >> >> : d \in BackupDocs}

BackupHashNext == \E p \in BackupPayloads : CreateBackupHash(p)

SpecBackupHash == PrefInit /\ [][BackupHashNext]_vars

\* C35: the backup_hash stored on a backup is the preference hash of its
\* payload, so two backups whose payloads have the same content have the
\* same stored hash.
C35_BackupHashIsPreferenceHash ==
    /\ \A i \in 1..Len(hash_docs) : hash_out[i] = GeneratePreferenceHash(hash_docs[i])
    /\ \A i, j \in 1..Len(hash_docs) :
          SameContent(hash_docs[i], hash_docs[j]) => hash_out[i] = hash_out[j]

(***************************************************************************)
(* SpecShape: saves of documents whose columns section is a map, a list    *)
(* or a string, with get and the clock.                                    *)
(***************************************************************************)
ShapeOps == 3
ShapeDocs == ValidDocs \cup {ListDoc, [WidthDoc(150) EXCEPT !.columns = Str]}

ShapeNext ==
    \/ \E u \in Users, d \in Doctypes : ops < ShapeOps /\ GetPrefs(u, d)
    \/ \E u \in Users, d \in Doctypes, doc \in ShapeDocs, a \in BOOLEAN :
         ops < ShapeOps /\ SavePrefs(u, d, doc, a)
    \/ Tick

SpecShape == PrefInit /\ [][ShapeNext]_vars

OutliveOps == 5
OutliveThreads == {"t1", "t3"}
OutliveKeys == {<<"a">>, <<"b">>, <<"a", "b">>}
LateDefault == "late"

OutliveNext ==
    \/ \E t \in OutliveThreads, k \in OutliveKeys :
           AllIdle /\ ops < OutliveOps /\ now = 0 /\ SetL1(t, k, "v1", ShortTtl)
    \/ \E t \in OutliveThreads : SetL2(t)
    \/ \E t \in OutliveThreads, k \in OutliveKeys :
           AllIdle /\ ops < OutliveOps
           /\ GetL1(t, "get", k, IF now < ShortTtl THEN None ELSE LateDefault)
    \/ \E t \in OutliveThreads : GetL2(t)
    \/ \E t \in OutliveThreads : GetFill(t)
    \/ \E t \in OutliveThreads :
           AllIdle /\ ops < OutliveOps /\ now = 0 /\ DeletePattern(t, <<"*">>)
    \/ AllIdle /\ now < TierTicks * TickSeconds /\ Tick

SpecOutlive == CacheInit /\ [][OutliveNext]_vars

\* C37: a tier-2 hit stores the value in tier 1 with the default TTL counted
\* from the time of the get, later than the tier-2 entry expires; a get made
\* after the TTL of the set has elapsed and tier 2 has expired the key returns
\* the value that tier 1 of its instance still holds.
C37_Tier2HitRestartsTtl ==
    [][\A t \in OutliveThreads :
         LET inst == InstOf(t)
             full_key == FullKey(th'[t].key)
         IN  /\ (th[t].pc = "get_fill" /\ th'[t].pc = "idle") =>
                   /\ Tier1Live(memory_cache'[inst], full_key, now)
                   /\ ItemOf(memory_cache'[inst], full_key).value = th[t].value
                   /\ ItemOf(memory_cache'[inst], full_key).expires_at = now + default_ttl
                   /\ ItemOf(memory_cache'[inst], full_key).expires_at
                         > redis_cache[full_key].expires_at
             /\ (th[t].pc = "idle" /\ ops' = ops + 1 /\ th'[t].op = "get"
                    /\ th'[t].default = LateDefault) =>
                   /\ now >= ShortTtl
                   /\ ~RedisLive(redis_cache, full_key, now)
                   /\ Tier1Live(memory_cache[inst], full_key, now) =>
                         /\ th'[t].pc = "idle"
                         /\ th'[t].ret = ItemOf(memory_cache[inst], full_key).value
      ]_vars

\* C37 witness: a get made after the TTL of the set had elapsed has returned
\* the value, and tier 2 holds the key expired
C37_Witness ==
    \E t \in OutliveThreads :
        /\ th[t].op = "get"
        /\ th[t].default = LateDefault
        /\ th[t].pc = "idle"
        /\ th[t].ret = "v1"
        /\ redis_cache[FullKey(th[t].key)].present
        /\ redis_cache[FullKey(th[t].key)].expires_at <= now

(***************************************************************************)
(* SpecTwoSets: two requests of one process set a key, each its own value, *)
(* and read it, while a second process reads it; the steps of the calls    *)
(* interleave freely.                                                      *)
(***************************************************************************)
TwoSetOps == 4
Setters == {"t1", "t2"}
OtherInstance == "t3"
TwoSetKey == <<"a">>
SetterValue == [t1 |-> "v1", t2 |-> "v2"]

TwoSetsNext ==
    \/ \E t \in Setters : ops < TwoSetOps /\ SetL1(t, TwoSetKey, SetterValue[t], 0)
    \/ \E t \in Setters : SetL2(t)
    \/ \E t \in Threads : ops < TwoSetOps /\ GetL1(t, "get", TwoSetKey, None)
    \/ \E t \in Threads : GetL2(t)
    \/ \E t \in Threads : GetFill(t)

SpecTwoSets == CacheInit /\ [][TwoSetsNext]_vars

\* C38: set writes tier 1 in one step and tier 2 in a later one, and each of
\* the two writes stores the value of its own call whatever the other tier
\* holds by then, so the tier-2 write of one set can follow both writes of a
\* concurrent set; a get returns the tier-1 value of its instance when that
\* tier holds the key and what it read from tier 2 otherwise.
C38_SetWritesTiersSeparately ==
    [][LET full_key == FullKey(TwoSetKey)
       IN  /\ \A t \in Threads :
                 LET inst == InstOf(t)
                 IN  /\ (th[t].pc = "idle" /\ th'[t].pc = "set_l2") =>
                           /\ ItemOf(memory_cache'[inst], full_key).value = SetterValue[t]
                           /\ redis_cache' = redis_cache
                     /\ (th[t].pc = "set_l2" /\ th'[t].pc = "idle") =>
                           /\ redis_cache'[full_key].payload = JsonDumps(SetterValue[t])
                           /\ memory_cache' = memory_cache
                     /\ (th[t].pc = "get_l2" /\ th'[t].pc # "get_l2"
                            /\ Tier2Holds(redis_cache, full_key, now)) =>
                           /\ th'[t].pc = "get_fill"
                           /\ th'[t].value = JsonLoads(redis_cache[full_key].payload)
                     /\ (th[t].pc = "get_fill" /\ th'[t].pc = "idle") =>
                           th'[t].ret = th[t].value
           /\ \A inst \in Instances :
                 (ops' = ops + 1 /\ cache_stats'[inst].hits = cache_stats[inst].hits + 1) =>
                    /\ Tier1Live(memory_cache[inst], full_key, now)
                    /\ \E t \in Threads :
                          /\ InstOf(t) = inst
                          /\ th[t].pc = "idle" /\ th'[t].pc = "idle"
                          /\ th'[t].op = "get"
                          /\ th'[t].ret = ItemOf(memory_cache[inst], full_key).value
      ]_vars

\* C38 witness: both sets have returned, tier 1 holds the value of one and
\* tier 2 that of the other, and a get on this instance and a get on the other
\* instance, both made after the sets returned, have returned different values
C38_Witness ==
    /\ AllIdle
    /\ cache_stats["A"].sets = 2
    /\ cache_stats["A"].hits = 1
    /\ cache_stats["B"].hits = 1
    /\ ItemOf(memory_cache["A"], FullKey(TwoSetKey)).value = "v2"
    /\ redis_cache[FullKey(TwoSetKey)].payload = JsonDumps("v1")
    /\ th["t1"].op = "get" /\ th["t1"].ret = "v2"
    /\ th["t2"].op = "set"
    /\ th[OtherInstance].op = "get" /\ th[OtherInstance].ret = "v1"

(***************************************************************************)
(* SpecReappear: a second process sets a key; in the first process one     *)
(* request reads the key while another deletes it once and then reads it.  *)
(* The steps of the calls interleave freely; nothing is set once the       *)
(* delete has started.                                                     *)
(***************************************************************************)
ReappearOps == 4
Reader == "t1"
Deleter == "t2"
Setter == "t3"
ReappearKey == <<"a">>
DeleteStarted == th[Deleter].op # "none"
DeleteReturned == cache_stats[InstOf(Deleter)].deletes = 1

ReappearNext ==
    \/ \E v \in Values :
           ops < ReappearOps /\ ~DeleteStarted /\ SetL1(Setter, ReappearKey, v, 0)
    \/ SetL2(Setter)
    \/ ops < ReappearOps /\ GetL1(Reader, "get", ReappearKey, None)
    \/ ops < ReappearOps /\ th[Setter].pc = "idle" /\ ~DeleteStarted
          /\ DeleteL1(Deleter, ReappearKey)
    \/ DeleteL2(Deleter)
    \/ ops < ReappearOps /\ DeleteReturned /\ GetL1(Deleter, "get", ReappearKey, None)
    \/ \E t \in {Reader, Deleter} : GetL2(t)
    \/ \E t \in {Reader, Deleter} : GetFill(t)

SpecReappear == CacheInit /\ [][ReappearNext]_vars

\* C39: a get stores the value it read from tier 2 in tier 1 in a later step,
\* whether or not a delete has run in between; delete removes the key from
\* tier 1 and, in a later step, from tier 2, and once it has returned tier 2
\* stays without the key; a get made after that returns what tier 1 holds for
\* the key, absent only if tier 1 does not hold it.
C39_GetStoresWhatItReadEarlier ==
    [][LET full_key == FullKey(ReappearKey)
           inst == InstOf(Deleter)
       IN  /\ (th[Reader].pc = "get_fill" /\ th'[Reader].pc = "idle") =>
                 /\ Tier1Live(memory_cache'[inst], full_key, now)
                 /\ ItemOf(memory_cache'[inst], full_key).value = th[Reader].value
                 /\ th'[Reader].ret = th[Reader].value
           /\ (th[Deleter].pc = "idle" /\ th'[Deleter].pc = "del_l2") =>
                 /\ full_key \notin KeysOf(memory_cache'[inst])
                 /\ redis_cache' = redis_cache
           /\ (th[Deleter].pc = "del_l2" /\ th'[Deleter].pc = "idle") =>
                 /\ ~redis_cache'[full_key].present
                 /\ memory_cache' = memory_cache
                 /\ th'[Deleter].ret = "True"
           /\ DeleteReturned => ~redis_cache[full_key].present
           /\ (DeleteReturned /\ th[Deleter].pc = "idle" /\ th'[Deleter] # th[Deleter]) =>
                 /\ th'[Deleter].op = "get"
                 /\ th'[Deleter].pc \in {"idle", "get_l2"}
                 /\ th'[Deleter].pc = "idle" <=> Tier1Live(memory_cache[inst], full_key, now)
                 /\ th'[Deleter].pc = "idle" =>
                       th'[Deleter].ret = ItemOf(memory_cache[inst], full_key).value
           /\ (th[Deleter].pc = "get_l2" /\ th'[Deleter].pc # "get_l2") =>
                 /\ th'[Deleter].pc = "idle"
                 /\ th'[Deleter].ret = None
      ]_vars

\* C39 witness: delete has returned, nothing was set since it started, and the
\* get made after it has returned the deleted value
C39_Witness ==
    /\ DeleteReturned
    /\ th[Deleter].op = "get"
    /\ th[Deleter].pc = "idle"
    /\ th[Deleter].ret \in Values
    /\ ~redis_cache[FullKey(ReappearKey)].present
    /\ th[Reader].op = "get" /\ th[Reader].ret = th[Deleter].ret

(***************************************************************************)
(* increment.  Numbers are cached as their numerals; the call is a get     *)
(* with default 0 followed, in a later step, by a set of the sum.          *)
(***************************************************************************)
Numerals == <<"0", "1", "2", "3", "4", "5", "6", "7", "8", "9">>
NumeralOf(n) == Numerals[n + 1]
\* isinstance(current_value, (int, float))
IsNumber(value) == \E n \in 1..Len(Numerals) : Numerals[n] = value
NumberOf(value) == (CHOOSE n \in 1..Len(Numerals) : Numerals[n] = value) - 1

\* increment, line 189: current_value = self.get(key, 0)
Increment(t, key) == GetL1(t, "increment", key, NumeralOf(0))

\* an increment that adds to what tier 1 holds when it writes
IncrSetFresh(t, amount) ==
    LET full_key == FullKey(th[t].key)
        mc == memory_cache[InstOf(t)]
        current_value == IF full_key \in KeysOf(mc) /\ IsNumber(ItemOf(mc, full_key).value)
                         THEN NumberOf(ItemOf(mc, full_key).value) ELSE 0
    IN  /\ th[t].pc = "incr_set"
        /\ SetL1Body(t, "increment", th[t].key, NumeralOf(current_value + amount), 0)
        /\ UNCHANGED <<now, prefVars, redis_cache, cache_stats, supplier_calls, ops>>

\* increment, lines 191-197: the sum of what get returned and amount is set
\* and, when set has returned, returned
IncrSet(t, amount) ==
    LET current_value == IF IsNumber(th[t].value) THEN NumberOf(th[t].value) ELSE 0
    IN  /\ th[t].pc = "incr_set"
        /\ SetL1Body(t, "increment", th[t].key, NumeralOf(current_value + amount), 0)
        /\ UNCHANGED <<now, prefVars, redis_cache, cache_stats, supplier_calls, ops>>

(***************************************************************************)
(* SpecIncrement: one request increments a key that is absent at first,    *)
(* call after call; a second request of the same process and a request of  *)
(* another process join in with increments of their own, whose steps       *)
(* interleave freely with the first's.                                     *)
(***************************************************************************)
IncrOps == 3
Counter == "t1"
Joiner == "t2"
IncrKey == <<"a">>
IncrThreads == {Counter, Joiner, OtherInstance}
Alone == th[Joiner].op = "none" /\ th[OtherInstance].op = "none"

IncrementNext ==
    \/ \E t \in IncrThreads : ops < IncrOps /\ Increment(t, IncrKey)
    \/ \E t \in IncrThreads : GetL2(t)
    \/ \E t \in IncrThreads : GetFill(t)
    \/ \E t \in IncrThreads : IncrSet(t, 1)
    \/ \E t \in IncrThreads : SetL2(t)

SpecIncrement == CacheInit /\ [][IncrementNext]_vars

\* C40: as long as one request increments alone, each of its calls returns
\* the number of calls made so far and leaves that number in both tiers; an
\* increment sets, in a step later than its get, the value its get returned
\* plus 1, whatever the key holds by then, and returns that sum.
C40_IncrementIsGetThenSet ==
    [][LET full_key == FullKey(IncrKey)
           mc == memory_cache'[InstOf(Counter)]
       IN  /\ (Alone' /\ th'[Counter].op = "increment" /\ th'[Counter].pc = "idle") =>
                 /\ th'[Counter].ret = NumeralOf(ops')
                 /\ ItemOf(mc, full_key).value = NumeralOf(ops')
                 /\ JsonLoads(redis_cache'[full_key].payload) = NumeralOf(ops')
           /\ \A t \in IncrThreads :
                 /\ (th[t].pc # "incr_set" /\ th'[t].pc = "incr_set") =>
                       /\ th'[t].value =
                             IF th[t].pc = "idle"
                             THEN ItemOf(memory_cache[InstOf(t)], full_key).value
                             ELSE IF th[t].pc = "get_l2" THEN NumeralOf(0)
                             ELSE th[t].value
                       /\ th[t].pc # "get_fill" => memory_cache' = memory_cache
                 /\ (th[t].pc = "incr_set" /\ th'[t].pc # "incr_set") =>
                       /\ th'[t].pc = "set_l2"
                       /\ th'[t].value = NumeralOf(NumberOf(th[t].value) + 1)
                       /\ ItemOf(memory_cache'[InstOf(t)], full_key).value = th'[t].value
                 /\ (th[t].pc = "set_l2" /\ th'[t].pc = "idle") =>
                       /\ th'[t].ret = th[t].value
                       /\ JsonLoads(redis_cache'[full_key].payload) = th[t].value
      ]_vars

\* C40 witness: two increments of the absent key have both returned 1 and
\* both tiers hold 1
C40_Witness ==
    /\ ops = 2
    /\ AllIdle
    /\ th[Counter].op = "increment" /\ th[Counter].ret = NumeralOf(1)
    /\ th[Joiner].op = "increment" /\ th[Joiner].ret = NumeralOf(1)
    /\ ItemOf(memory_cache[InstOf(Counter)], FullKey(IncrKey)).value = NumeralOf(1)
    /\ JsonLoads(redis_cache[FullKey(IncrKey)].payload) = NumeralOf(1)

(***************************************************************************)
(* Requests that write preference documents, step by step.  Every write    *)
(* goes through UserColumnPreference.create_or_update_preference, which is *)
(* three database statements: the lookup of the existing document, the     *)
(* reads of validate and the INSERT or UPDATE.  A statement of one request *)
(* can run between two statements of another; each statement sees what    *)
(* the statements before it wrote.  What follows the write in the calling  *)
(* method (the cache set, the cache delete, the sync) is part of the last  *)
(* step.                                                                   *)
(***************************************************************************)
SessRest ==
    <<now, memory_cache, cache_stats, th, supplier_calls, meta, backup_table, pret,
      backup_log, hash_docs, hash_out, window>>

Returned(s, ok) == [sess EXCEPT ![s].pc = "idle", ![s].ok = ok, ![s].done = @ + 1]
Entered(s, op, user, doctype_name, data) ==
    [sess EXCEPT ![s] = [@ EXCEPT !.pc = "lookup", !.op = op, !.user = user,
                                  !.doctype_name = doctype_name, !.data = data,
                                  !.existing = 0, !.ok = FALSE]]

\* update_*_preferences: get the whole document, merge the section, save
SessUpdateSection(s, user, doctype_name, section, updates) ==
    LET got == GetUserPreferences(ucp_table, pref_cache, meta[doctype_name], user,
                                  doctype_name, now)
        current_prefs == [got.value EXCEPT ![section] = DictUpdate(@, updates)]
        entered == [sess EXCEPT ![s].op = "update_section", ![s].user = user,
                                ![s].doctype_name = doctype_name, ![s].data = current_prefs]
    IN  /\ sess[s].pc = "idle"
        /\ ops' = ops + 1
        /\ pref_cache' = got.cache
        /\ sess' = IF ValidatePreferences(current_prefs)
                   THEN Entered(s, "update_section", user, doctype_name,
                                Stamp(current_prefs, now))
                   ELSE [entered EXCEPT ![s].ok = FALSE, ![s].done = @ + 1]
        /\ UNCHANGED <<ucp_table, sync_cache, realtime, next_name, redis_cache, SessRest>>

\* save_user_preferences called on its own
SessSave(s, user, doctype_name, preferences) ==
    LET entered == [sess EXCEPT ![s].op = "save", ![s].user = user,
                                ![s].doctype_name = doctype_name, ![s].data = preferences]
    IN  /\ sess[s].pc = "idle"
        /\ ops' = ops + 1
        /\ sess' = IF ValidatePreferences(preferences)
                   THEN Entered(s, "save", user, doctype_name, Stamp(preferences, now))
                   ELSE [entered EXCEPT ![s].ok = FALSE, ![s].done = @ + 1]
        /\ UNCHANGED <<ucp_table, pref_cache, sync_cache, realtime, next_name, redis_cache,
                       SessRest>>

\* import_user_preferences of one entry: frappe.db.exists, then the write
SessImport(s, user, pref_data, overwrite) ==
    LET existing == RowsOf(ucp_table, user, pref_data.doctype_name) # <<>>
    IN  /\ sess[s].pc = "idle"
        /\ ops' = ops + 1
        /\ sess' = IF existing /\ ~overwrite
                   THEN [sess EXCEPT ![s].op = "import", ![s].user = user,
                                     ![s].doctype_name = pref_data.doctype_name,
                                     ![s].data = pref_data.preference_data,
                                     ![s].ok = TRUE, ![s].done = @ + 1]
                   ELSE Entered(s, "import", user, pref_data.doctype_name,
                                pref_data.preference_data)
        /\ UNCHANGED <<ucp_table, pref_cache, sync_cache, realtime, next_name, redis_cache,
                       SessRest>>

\* ColumnService.update_width_preferences: read the stored document, add the widths
SessUpdateWidth(s, user, doctype_name, width_preferences) ==
    /\ sess[s].pc = "idle"
    /\ ops' = ops + 1
    /\ sess' = Entered(s, "update_width_preferences", user, doctype_name,
                       DictUpdate(GetUserPreference(ucp_table, user, doctype_name),
                                  [column_widths |-> width_preferences]))
    /\ UNCHANGED <<ucp_table, pref_cache, sync_cache, realtime, next_name, redis_cache,
                   SessRest>>

\* restore_preference_backup of a backup that holds at most one DocType
SessRestore(s, backup_name, user) ==
    LET found == BackupRows(backup_table, backup_name)
        backup_data == JsonLoads(found[1].backup_data)
    IN  /\ sess[s].pc = "idle"
        /\ found # <<>>
        /\ Cardinality(DOMAIN backup_data) <= 1
        /\ ops' = ops + 1
        /\ sess' = IF found[1].user = user /\ DOMAIN backup_data # {}
                   THEN LET doctype_name == CHOOSE d \in DOMAIN backup_data : TRUE
                        IN  Entered(s, "restore", found[1].user, doctype_name,
                                    backup_data[doctype_name])
                   ELSE [sess EXCEPT ![s].op = "restore", ![s].user = user,
                                     ![s].ok = found[1].user = user, ![s].done = @ + 1]
        /\ UNCHANGED <<ucp_table, pref_cache, sync_cache, realtime, next_name, redis_cache,
                       SessRest>>

\* create_or_update_preference: existing = frappe.db.get_value(...)
SessLookup(s) ==
    LET existing == RowsOf(ucp_table, sess[s].user, sess[s].doctype_name)
    IN  /\ sess[s].pc = "lookup"
        /\ sess' = [sess EXCEPT ![s].pc = "validate",
                                ![s].existing = IF existing # <<>> THEN existing[1].name ELSE 0]
        /\ UNCHANGED <<ops, ucp_table, pref_cache, sync_cache, realtime, next_name,
                       redis_cache, SessRest>>

\* doc.save or doc.insert up to the write: the document to update must still
\* be there, and validate reads the table for another document of the pair
SessValidate(s) ==
    LET me == sess[s]
        there == me.existing = 0 \/ \E n \in 1..Len(ucp_table) : ucp_table[n].name = me.existing
        name == IF me.existing # 0 THEN me.existing ELSE next_name
    IN  /\ me.pc = "validate"
        /\ sess' = IF /\ there
                      /\ ValidateUniquePreference(ucp_table, me.user, me.doctype_name, name)
                      /\ ValidatePreferenceData(me.data)
                   THEN [sess EXCEPT ![s].pc = "write"]
                   ELSE Returned(s, FALSE)
        /\ UNCHANGED <<ops, ucp_table, pref_cache, sync_cache, realtime, next_name,
                       redis_cache, SessRest>>

\* the UPDATE or INSERT, the on_update hook and the rest of the calling method
SessWrite(s) ==
    LET me == sess[s]
        table == IF me.existing # 0
                 THEN [n \in 1..Len(ucp_table) |->
                          IF ucp_table[n].name = me.existing
                          THEN [ucp_table[n] EXCEPT !.preference_data = JsonDumps(me.data)]
                          ELSE ucp_table[n]]
                 ELSE Append(ucp_table, [name |-> next_name, user |-> me.user,
                                         doctype_name |-> me.doctype_name,
                                         preference_data |-> JsonDumps(me.data)])
        key == <<me.user, me.doctype_name>>
        st == SyncAcrossSessions([table |-> table, cache |-> pref_cache, sync |-> sync_cache,
                                  rt |-> realtime],
                                 me.user, me.doctype_name, meta[me.doctype_name], now)
    IN  /\ me.pc = "write"
        /\ ucp_table' = table
        /\ next_name' = IF me.existing # 0 THEN next_name ELSE next_name + 1
        /\ redis_cache' = ClearUserCache(redis_cache, me.doctype_name, me.user)
        /\ pref_cache' =
              CASE me.op \in {"save", "update_section"} ->
                       CacheSet(pref_cache, key, JsonDumps(me.data), now, cache_ttl)
                [] me.op = "import" -> ClearPreferenceCache(pref_cache, me.user, me.doctype_name)
                [] me.op = "restore" -> st.cache
                [] OTHER -> pref_cache
        /\ sync_cache' = IF me.op = "restore" THEN st.sync ELSE sync_cache
        /\ realtime' = IF me.op = "restore" THEN st.rt ELSE realtime
        /\ sess' = Returned(s, TRUE)
        /\ UNCHANGED <<ops, SessRest>>

(***************************************************************************)
(* SpecSessions: two requests write the preferences of one user and one    *)
(* DocType at the same time; reset and the creation of a backup run in one *)
(* step.                                                                   *)
(***************************************************************************)
SessOps == 3
SessUsers == {"u1"}
SessPatches ==
    {<<"pagination", [page_size |-> 50]>>, <<"sorting", [field |-> "creation", order |-> "asc"]>>}
SessImports ==
    {[doctype_name |-> d, preference_data |-> doc] :
        d \in Doctypes, doc \in {ListDoc, [column_widths |-> [amount |-> 120]]}}

SessNext ==
    \/ \E s \in Sessions, u \in SessUsers, d \in Doctypes, p \in SessPatches :
         ops < SessOps /\ SessUpdateSection(s, u, d, p[1], p[2])
    \/ \E s \in Sessions, u \in SessUsers, d \in Doctypes :
         ops < SessOps /\ SessSave(s, u, d, WidthDoc(150))
    \/ \E s \in Sessions, u \in SessUsers, i \in SessImports, overwrite \in BOOLEAN :
         ops < SessOps /\ SessImport(s, u, i, overwrite)
    \/ \E s \in Sessions, u \in SessUsers, d \in Doctypes :
         ops < SessOps /\ SessUpdateWidth(s, u, d, [amount |-> 200])
    \/ \E s \in Sessions, u \in SessUsers, n \in 1..Len(backup_table) :
         ops < SessOps /\ SessRestore(s, backup_table[n].name, u)
    \/ \E s \in Sessions : SessLookup(s)
    \/ \E s \in Sessions : SessValidate(s)
    \/ \E s \in Sessions : SessWrite(s)
    \/ \E u \in SessUsers, d \in Doctypes : ops < SessOps /\ ResetToDefaults(u, d)
    \/ \E u \in SessUsers, d \in Doctypes : ops < SessOps /\ CreateBackup(u, d, "manual")

SpecSessions == PrefInit /\ [][SessNext]_vars

\* C17: every updateSection reads the whole document and writes the whole
\* document, and whichever save ran last leaves its document as the persisted
\* one: when an updateSection returns, the persisted document of the pair is
\* the one that call handed to save.
C17_LastSaveIsPersisted ==
    [][\A s \in Sessions :
         (sess'[s].done = sess[s].done + 1 /\ sess'[s].op = "update_section") =>
            LET rows == RowsOf(ucp_table', sess'[s].user, sess'[s].doctype_name)
            IN  /\ rows # <<>>
                /\ rows[Len(rows)].preference_data = JsonDumps(sess'[s].data)]_vars

\* C18: at most one preference document is persisted for each user and
\* record type.
C18_OneDocumentPerPair ==
    \A u \in Users, d \in Doctypes : Len(RowsOf(ucp_table, u, d)) <= 1

====
